---- MODULE Spec2Model ----
(***************************************************************************)
(* Model of payments-engine-rs: the in-memory event store, the             *)
(* event-sourced repository, the aggregate root, the Account aggregate,    *)
(* the BankAccountRoot command methods, Service::handle, Runtime::run with  *)
(* its connector tasks and channel, and the snapshot output of run.        *)
(*                                                                         *)
(* Decimal amounts are integers counting units of 10^-5, so that           *)
(* Decimal::round_dp(4) is a real rounding (to a multiple of 10 units).    *)
(* Option<T> is a sequence: None is <<>>, Some(x) is <<x>>.                *)
(* Result<T, E> is a record: Ok(v) or Err(e).                              *)
(***************************************************************************)
EXTENDS Integers, Sequences, FiniteSets, TLC

\* ------------------------------------------------------------------ bounds
\* Most events the service specifications let the streams hold together.
MaxEvents == 4
\* Most events the streams hold when two handlers race.
MaxConcEvents == 3
\* Longest event stream the store specification lets a stream reach.
MaxStoreLen == 3
\* Longest batch of events one store append call carries.
MaxBatch == 2
\* Most transactions the connectors of one run yield together.
MaxYield == 3
\* Most transactions the connectors yield in the runs checked for termination.
MaxFairYield == 3

\* ------------------------------------------------------------ input domains
Clients == {1, 2}
TxIds == {1, 2}
Handlers == {1, 2}
ConnectorNames == {"a", "b"}

None == <<>>
Some(x) == <<x>>
Ok(v) == [ok |-> TRUE, val |-> v]
Err(e) == [ok |-> FALSE, err |-> e]

\* Amounts a deposit or withdrawal row may carry: missing, negative,
\* 0.00005 and 0.0001.
CommandAmounts == {None, Some(-5), Some(5), Some(10)}

TransactionTypes == {"Deposit", "Withdrawal", "Dispute", "Resolve", "Chargeback"}

\* Transaction: the status field is skipped by serde and defaults to Ok.
Transaction(client_id, tx_id, transaction_type, amount) ==
    [status |-> "Ok", client_id |-> client_id, tx_id |-> tx_id,
     transaction_type |-> transaction_type, amount |-> amount]

\* Amounts a dispute row may carry: normally none, but the field is parsed
\* when present.
DisputeAmounts == {None, Some(5)}

\* The commands the service is given.  A resolve or chargeback row has no
\* amount.
Commands ==
    {Transaction(c, t, ty, a) : c \in Clients, t \in TxIds,
                                ty \in {"Deposit", "Withdrawal"}, a \in CommandAmounts}
    \cup
    {Transaction(c, t, "Dispute", a) : c \in Clients, t \in TxIds, a \in DisputeAmounts}
    \cup
    {Transaction(c, t, ty, None) : c \in Clients, t \in TxIds,
                                   ty \in {"Resolve", "Chargeback"}}

\* ------------------------------------------------------------ domain model
can_be_disputed(tx) ==
    /\ tx.status = "Ok"
    /\ (tx.transaction_type = "Withdrawal" \/ tx.transaction_type = "Deposit")

can_complete_dispute(tx) ==
    /\ tx.status = "Disputed"
    /\ (tx.transaction_type = "Withdrawal" \/ tx.transaction_type = "Deposit")

\* TransactionEvent variants.
WasOpened(tx_id, account_holder_id, transaction) ==
    [kind |-> "WasOpened", tx_id |-> tx_id,
     account_holder_id |-> account_holder_id, transaction |-> transaction]
DepositWasRecorded(amount, transaction) ==
    [kind |-> "DepositWasRecorded", amount |-> amount, transaction |-> transaction]
WithdrawalWasRecorded(amount, transaction) ==
    [kind |-> "WithdrawalWasRecorded", amount |-> amount, transaction |-> transaction]
DisputeWasRecorded(tx_id, amount) ==
    [kind |-> "DisputeWasRecorded", tx_id |-> tx_id, amount |-> amount]
ResolveWasRecorded(tx_id, amount) ==
    [kind |-> "ResolveWasRecorded", tx_id |-> tx_id, amount |-> amount]
ChargebackWasRecorded(tx_id, amount) ==
    [kind |-> "ChargebackWasRecorded", tx_id |-> tx_id, amount |-> amount]

Balance_new(available) == [available |-> available, held |-> 0]

\* HashMap::insert on pending_transactions.
Insert(map, k, v) == [t \in (DOMAIN map) \cup {k} |-> IF t = k THEN v ELSE map[t]]

\* Entry::and_modify(|tx| tx.status = s) on an occupied entry.
SetStatus(map, k, s) == [map EXCEPT ![k].status = s]

\* apply on no state accepting an opening deposit of a negative amount.
ApplyNone_NoNegativeCheck(event) ==
    IF event.kind = "WasOpened"
    THEN IF event.transaction.amount = None
         THEN Err(<<"NoMoneyDeposited">>)
         ELSE Ok([id |-> event.account_holder_id,
                  balance |-> Balance_new(event.transaction.amount[1]),
                  pending_transactions |-> (event.tx_id :> event.transaction),
                  locked |-> FALSE])
    ELSE Err(<<"NotOpenedYet">>)

\* Account::apply, state = None.
ApplyNone(event) ==
    IF event.kind = "WasOpened"
    THEN IF event.transaction.amount = None
         THEN Err(<<"NoMoneyDeposited">>)
         ELSE IF event.transaction.amount[1] < 0
         THEN Err(<<"NegativeTransactionAttempted", event.tx_id>>)
         ELSE Ok([id |-> event.account_holder_id,
                  balance |-> Balance_new(event.transaction.amount[1]),
                  pending_transactions |-> (event.tx_id :> event.transaction),
                  locked |-> FALSE])
    ELSE Err(<<"NotOpenedYet">>)

\* The deposit branch of apply debiting the account.
ApplyDepositDebits(account, event) ==
    Ok([account EXCEPT
          !.balance.available = @ - event.amount,
          !.pending_transactions = Insert(@, event.transaction.tx_id, event.transaction)])

\* Account::apply, DepositWasRecorded on an existing account.
ApplyDeposit(account, event) ==
    Ok([account EXCEPT
          !.balance.available = @ + event.amount,
          !.pending_transactions = Insert(@, event.transaction.tx_id, event.transaction)])

\* Account::apply, WithdrawalWasRecorded on an existing account.
ApplyWithdrawal(account, event) ==
    Ok([account EXCEPT
          !.balance.available = @ - event.amount,
          !.pending_transactions = Insert(@, event.transaction.tx_id, event.transaction)])

\* A sign slip in the deposit branch of the dispute: held is decreased.
ApplyDisputeHeldSignSlip(account, event) ==
    IF event.tx_id \notin DOMAIN account.pending_transactions
    THEN Err(<<"panic: unreachable">>)
    ELSE LET marked == [account EXCEPT
                          !.pending_transactions = SetStatus(@, event.tx_id, "Disputed")]
             ty == marked.pending_transactions[event.tx_id].transaction_type
         IN  IF ty = "Deposit"
             THEN Ok([marked EXCEPT !.balance.available = @ - event.amount,
                                    !.balance.held = @ - event.amount])
             ELSE IF ty = "Withdrawal"
             THEN Ok([marked EXCEPT
                        !.balance.available =
                            IF @ >= event.amount THEN @ - event.amount ELSE @,
                        !.balance.held = @ + event.amount])
             ELSE Err(<<"InvalidTransactionDispute">>)

\* The guard of the withdrawal branch moved to the deposit branch.
ApplyDisputeGuardSwapped(account, event) ==
    IF event.tx_id \notin DOMAIN account.pending_transactions
    THEN Err(<<"panic: unreachable">>)
    ELSE LET marked == [account EXCEPT
                          !.pending_transactions = SetStatus(@, event.tx_id, "Disputed")]
             ty == marked.pending_transactions[event.tx_id].transaction_type
         IN  IF ty = "Deposit"
             THEN Ok([marked EXCEPT
                        !.balance.available =
                            IF @ >= event.amount THEN @ - event.amount ELSE @,
                        !.balance.held = @ + event.amount])
             ELSE IF ty = "Withdrawal"
             THEN Ok([marked EXCEPT !.balance.available = @ - event.amount,
                                    !.balance.held = @ + event.amount])
             ELSE Err(<<"InvalidTransactionDispute">>)

\* The dispute branch of apply debiting available for a withdrawal whatever
\* the balance is.
ApplyDisputeAlwaysDebits(account, event) ==
    IF event.tx_id \notin DOMAIN account.pending_transactions
    THEN Err(<<"panic: unreachable">>)
    ELSE LET marked == [account EXCEPT
                          !.pending_transactions = SetStatus(@, event.tx_id, "Disputed")]
             ty == marked.pending_transactions[event.tx_id].transaction_type
         IN  IF ty \in {"Deposit", "Withdrawal"}
             THEN Ok([marked EXCEPT !.balance.available = @ - event.amount,
                                    !.balance.held = @ + event.amount])
             ELSE Err(<<"InvalidTransactionDispute">>)

\* Account::apply, DisputeWasRecorded on an existing account.  A vacant
\* entry reaches unreachable!(), a panic.
ApplyDispute(account, event) ==
    IF event.tx_id \notin DOMAIN account.pending_transactions
    THEN Err(<<"panic: unreachable">>)
    ELSE LET marked == [account EXCEPT
                          !.pending_transactions = SetStatus(@, event.tx_id, "Disputed")]
             ty == marked.pending_transactions[event.tx_id].transaction_type
         IN  IF ty = "Deposit"
             THEN Ok([marked EXCEPT !.balance.available = @ - event.amount,
                                    !.balance.held = @ + event.amount])
             ELSE IF ty = "Withdrawal"
             THEN Ok([marked EXCEPT
                        !.balance.available =
                            IF @ >= event.amount THEN @ - event.amount ELSE @,
                        !.balance.held = @ + event.amount])
             ELSE Err(<<"InvalidTransactionDispute">>)

\* The resolve branch of apply releasing the held funds without crediting
\* available.
ApplyResolveNoCredit(account, event) ==
    IF event.tx_id \notin DOMAIN account.pending_transactions
    THEN Err(<<"panic: unreachable">>)
    ELSE LET marked == [account EXCEPT
                          !.pending_transactions = SetStatus(@, event.tx_id, "Ok")]
             ty == marked.pending_transactions[event.tx_id].transaction_type
         IN  IF ty \in {"Deposit", "Withdrawal"} /\ marked.balance.held >= event.amount
             THEN Ok([marked EXCEPT !.balance.held = @ - event.amount])
             ELSE Err(<<"InsufficientHeldFunds">>)

\* The resolve branch of apply marking the transaction Resolved.
ApplyResolveMarksResolved(account, event) ==
    IF event.tx_id \notin DOMAIN account.pending_transactions
    THEN Err(<<"panic: unreachable">>)
    ELSE LET marked == [account EXCEPT
                          !.pending_transactions = SetStatus(@, event.tx_id, "Resolved")]
             ty == marked.pending_transactions[event.tx_id].transaction_type
         IN  IF ty \in {"Deposit", "Withdrawal"} /\ marked.balance.held >= event.amount
             THEN Ok([marked EXCEPT !.balance.held = @ - event.amount,
                                    !.balance.available = @ + event.amount])
             ELSE Err(<<"InsufficientHeldFunds">>)

\* Account::apply, ResolveWasRecorded on an existing account.
ApplyResolve(account, event) ==
    IF event.tx_id \notin DOMAIN account.pending_transactions
    THEN Err(<<"panic: unreachable">>)
    ELSE LET marked == [account EXCEPT
                          !.pending_transactions = SetStatus(@, event.tx_id, "Ok")]
             ty == marked.pending_transactions[event.tx_id].transaction_type
         IN  IF ty \in {"Deposit", "Withdrawal"} /\ marked.balance.held >= event.amount
             THEN Ok([marked EXCEPT !.balance.held = @ - event.amount,
                                    !.balance.available = @ + event.amount])
             ELSE Err(<<"InsufficientHeldFunds">>)

\* The chargeback branch of apply leaving the account unlocked.
ApplyChargebackNoLock(account, event) ==
    IF event.tx_id \notin DOMAIN account.pending_transactions
    THEN Err(<<"panic: unreachable">>)
    ELSE LET marked == [account EXCEPT
                          !.pending_transactions = SetStatus(@, event.tx_id, "ChargedBack")]
             ty == marked.pending_transactions[event.tx_id].transaction_type
         IN  IF ty \in {"Deposit", "Withdrawal"} /\ marked.balance.held >= event.amount
             THEN Ok([marked EXCEPT !.balance.held = @ - event.amount])
             ELSE Err(<<"InvalidTransactionChargeBack">>)

\* Account::apply, ChargebackWasRecorded on an existing account.
ApplyChargeback(account, event) ==
    IF event.tx_id \notin DOMAIN account.pending_transactions
    THEN Err(<<"panic: unreachable">>)
    ELSE LET marked == [account EXCEPT
                          !.pending_transactions = SetStatus(@, event.tx_id, "ChargedBack")]
             ty == marked.pending_transactions[event.tx_id].transaction_type
         IN  IF ty \in {"Deposit", "Withdrawal"} /\ marked.balance.held >= event.amount
             THEN Ok([marked EXCEPT !.balance.held = @ - event.amount,
                                    !.locked = TRUE])
             ELSE Err(<<"InvalidTransactionChargeBack">>)

\* The call reached unreachable!(): it panicked and returned nothing.
panicked(r) == ~r.ok /\ r.err = <<"panic: unreachable">>

\* Account::apply.  state is None or Some(account).
apply(state, event) ==
    IF state = None
    THEN ApplyNone(event)
    ELSE LET account == state[1]
         IN  CASE event.kind = "WasOpened" -> Err(<<"AlreadyOpened">>)
               [] event.kind = "DepositWasRecorded" -> ApplyDeposit(account, event)
               [] event.kind = "WithdrawalWasRecorded" -> ApplyWithdrawal(account, event)
               [] event.kind = "DisputeWasRecorded" -> ApplyDispute(account, event)
               [] event.kind = "ResolveWasRecorded" -> ApplyResolve(account, event)
               [] event.kind = "ChargebackWasRecorded" -> ApplyChargeback(account, event)

\* ------------------------------------------------------------ aggregate root
\* Root::record_new.
record_new(event) ==
    LET r == apply(None, event)
    IN  IF r.ok
        THEN Ok([aggregate |-> r.val, version |-> 1, recorded_events |-> <<event>>])
        ELSE r

\* record_that forgets to push the event on the uncommitted buffer.
record_that_NoPush(root, event) ==
    LET r == apply(Some(root.aggregate), event)
    IN  IF r.ok
        THEN Ok([aggregate |-> r.val, version |-> root.version + 1,
                 recorded_events |-> root.recorded_events])
        ELSE r

\* Root::record_that.
record_that(root, event) ==
    LET r == apply(Some(root.aggregate), event)
    IN  IF r.ok
        THEN Ok([aggregate |-> r.val, version |-> root.version + 1,
                 recorded_events |-> Append(root.recorded_events, event)])
        ELSE r

\* rehydrate_from keeping the replayed event as uncommitted, as record_new
\* does.
rehydrate_from_KeepsEvent(event) ==
    LET r == apply(None, event)
    IN  IF r.ok
        THEN Ok([aggregate |-> r.val, version |-> 1, recorded_events |-> <<event>>])
        ELSE r

\* Root::rehydrate_from.
rehydrate_from(event) ==
    LET r == apply(None, event)
    IN  IF r.ok
        THEN Ok([aggregate |-> r.val, version |-> 1, recorded_events |-> <<>>])
        ELSE r

\* apply_rehydrated_event forgets to count the replayed event.
apply_rehydrated_event_NoVersionBump(root, event) ==
    LET r == apply(Some(root.aggregate), event)
    IN  IF r.ok
        THEN Ok([root EXCEPT !.aggregate = r.val])
        ELSE r

\* Root::apply_rehydrated_event.
apply_rehydrated_event(root, event) ==
    LET r == apply(Some(root.aggregate), event)
    IN  IF r.ok
        THEN Ok([root EXCEPT !.aggregate = r.val, !.version = @ + 1])
        ELSE r

\* The fold passing over an event apply rejects and keeping the root it has.
RECURSIVE rehydrate_fold_SkipsRejected(_, _)
rehydrate_fold_SkipsRejected(ctx, stream) ==
    IF stream = <<>>
    THEN Ok(ctx)
    ELSE LET new_ctx_result == IF ctx = None
                               THEN rehydrate_from(Head(stream))
                               ELSE apply_rehydrated_event(ctx[1], Head(stream))
         IN  IF new_ctx_result.ok
             THEN rehydrate_fold_SkipsRejected(Some(new_ctx_result.val), Tail(stream))
             ELSE IF panicked(new_ctx_result)
             THEN new_ctx_result
             ELSE rehydrate_fold_SkipsRejected(ctx, Tail(stream))

\* The try_fold of Root::rehydrate_async: ctx is None or Some(root); the
\* fold stops at the first event apply rejects, and a panic of apply
\* unwinds through it.
RECURSIVE rehydrate_fold(_, _)
rehydrate_fold(ctx, stream) ==
    IF stream = <<>>
    THEN Ok(ctx)
    ELSE LET new_ctx_result == IF ctx = None
                               THEN rehydrate_from(Head(stream))
                               ELSE apply_rehydrated_event(ctx[1], Head(stream))
         IN  IF new_ctx_result.ok
             THEN rehydrate_fold(Some(new_ctx_result.val), Tail(stream))
             ELSE IF panicked(new_ctx_result)
             THEN new_ctx_result
             ELSE Err(<<"Domain", new_ctx_result.err>>)

\* Root::rehydrate_async: Ok(None), Ok(Some(root)) or Err(Domain(e)).  The
\* in-memory stream never yields an error (its Error type is Infallible).
rehydrate_async(stream) == rehydrate_fold(None, stream)

\* ------------------------------------------------------------- event store
\* Check::Any and Check::MustBe(v).
Check_Any == <<"Any">>
Check_MustBe(v) == <<"MustBe", v>>
\* VersionSelect::All and VersionSelect::From(v).
VersionSelect_All == <<"All">>
VersionSelect_From(v) == <<"From", v>>

\* The backend's event_streams map, read with unwrap_or_default: a stream
\* that was never written is the empty sequence.
EmptyBackend == [id \in Clients |-> <<>>]

\* last_event_stream_version in InMemory::append.
last_event_stream_version(backend, id) ==
    IF backend[id] = <<>> THEN 0 ELSE backend[id][Len(backend[id])].version

\* InMemory::append without the version check (every check behaves as Any).
append_NoCheck(backend, id, version_check, events) ==
    LET last == last_event_stream_version(backend, id)
        persisted_events ==
            [i \in 1 .. Len(events) |->
                [stream_id |-> id, version |-> last + (i - 1) + 1, event |-> events[i]]]
        new_last == IF Len(events) = 0 THEN 0
                    ELSE persisted_events[Len(events)].version
    IN  [result |-> Ok(new_last),
         backend |-> [backend EXCEPT ![id] = @ \o persisted_events]]

\* InMemory::append numbering every event of a batch from the enumerate
\* index alone (the "+ last" forgotten after the first event).
append_IndexVersions(backend, id, version_check, events) ==
    LET last == last_event_stream_version(backend, id)
    IN  IF version_check[1] = "MustBe" /\ last # version_check[2]
        THEN [result |-> Err(<<"Conflict", version_check[2], last>>),
              backend |-> backend]
        ELSE LET persisted_events ==
                     [i \in 1 .. Len(events) |->
                         [stream_id |-> id,
                          version |-> IF i = 1 THEN last + 1 ELSE i,
                          event |-> events[i]]]
                 new_last == IF Len(events) = 0 THEN 0
                             ELSE persisted_events[Len(events)].version
             IN  [result |-> Ok(new_last),
                  backend |-> [backend EXCEPT ![id] = @ \o persisted_events]]

\* InMemory::append storing the batch with insert, in place of the stream.
append_Overwrites(backend, id, version_check, events) ==
    LET last == last_event_stream_version(backend, id)
    IN  IF version_check[1] = "MustBe" /\ last # version_check[2]
        THEN [result |-> Err(<<"Conflict", version_check[2], last>>),
              backend |-> backend]
        ELSE LET persisted_events ==
                     [i \in 1 .. Len(events) |->
                         [stream_id |-> id, version |-> last + (i - 1) + 1,
                          event |-> events[i]]]
                 new_last == IF Len(events) = 0 THEN 0
                             ELSE persisted_events[Len(events)].version
             IN  [result |-> Ok(new_last),
                  backend |-> [backend EXCEPT ![id] = persisted_events]]

\* InMemory::append: the outcome and the backend after the call.  An empty
\* batch makes persisted_events.last() None, so unwrap_or_default gives 0.
append(backend, id, version_check, events) ==
    LET last == last_event_stream_version(backend, id)
    IN  IF version_check[1] = "MustBe" /\ last # version_check[2]
        THEN [result |-> Err(<<"Conflict", version_check[2], last>>),
              backend |-> backend]
        ELSE LET persisted_events ==
                     [i \in 1 .. Len(events) |->
                         [stream_id |-> id, version |-> last + (i - 1) + 1,
                          event |-> events[i]]]
                 new_last == IF Len(events) = 0 THEN 0
                             ELSE persisted_events[Len(events)].version
             IN  [result |-> Ok(new_last),
                  backend |-> [backend EXCEPT ![id] = @ \o persisted_events]]

\* The filter of InMemory::stream.
SelectVersions(events, select) ==
    LET keep(evt) == select = VersionSelect_All \/ evt.version >= select[2]
    IN  SelectSeq(events, keep)

\* InMemory::stream: a clone of the stream, filtered.
stream(backend, id, select) == SelectVersions(backend[id], select)

\* -------------------------------------------------------------- repository
\* map_ok(|persisted| persisted.event)
Events(persisted) == [i \in 1 .. Len(persisted) |-> persisted[i].event]

\* EventSourced::get.
get(backend, id) ==
    LET ctx == rehydrate_async(Events(stream(backend, id, VersionSelect_All)))
    IN  IF panicked(ctx) THEN ctx
        ELSE IF ~ctx.ok THEN Err(<<"Internal", ctx.err>>)
        ELSE IF ctx.val = None THEN Err(<<"NotFound">>)
        ELSE Ok(ctx.val[1])

\* take_uncommitted_events copying the buffer and leaving it in the root.
take_uncommitted_events_Copies(root) ==
    [taken |-> root.recorded_events, root |-> root]

\* Root::take_uncommitted_events: what is taken, and the root left behind.
take_uncommitted_events(root) ==
    [taken |-> root.recorded_events, root |-> [root EXCEPT !.recorded_events = <<>>]]

\* save without its early return on an empty buffer: the store is called
\* with whatever was taken.
save_NoEmptyReturn(backend, root) ==
    LET t == take_uncommitted_events(root)
        events_to_commit == t.taken
        aggregate_id == root.aggregate.id
        current_event_stream_version == root.version - Len(events_to_commit)
        a == append(backend, aggregate_id,
                    Check_MustBe(current_event_stream_version), events_to_commit)
    IN  [result |-> IF a.result.ok THEN Ok(<<>>) ELSE Err(a.result.err),
         root |-> t.root, backend |-> a.backend]

\* save expecting the root's own version in the store, the recorded events
\* not subtracted.
save_VersionNotRewound(backend, root) ==
    LET t == take_uncommitted_events(root)
        events_to_commit == t.taken
        aggregate_id == root.aggregate.id
    IN  IF events_to_commit = <<>>
        THEN [result |-> Ok(<<>>), root |-> t.root, backend |-> backend]
        ELSE LET a == append(backend, aggregate_id,
                             Check_MustBe(root.version), events_to_commit)
             IN  [result |-> IF a.result.ok THEN Ok(<<>>) ELSE Err(a.result.err),
                  root |-> t.root, backend |-> a.backend]

\* save appending whatever the stream's version is.
save_NoVersionCheck(backend, root) ==
    LET t == take_uncommitted_events(root)
        events_to_commit == t.taken
        aggregate_id == root.aggregate.id
    IN  IF events_to_commit = <<>>
        THEN [result |-> Ok(<<>>), root |-> t.root, backend |-> backend]
        ELSE LET a == append(backend, aggregate_id, Check_Any, events_to_commit)
             IN  [result |-> IF a.result.ok THEN Ok(<<>>) ELSE Err(a.result.err),
                  root |-> t.root, backend |-> a.backend]

\* EventSourced::save: the outcome, the root and the backend after the call.
save(backend, root) ==
    LET t == take_uncommitted_events(root)
        events_to_commit == t.taken
        aggregate_id == root.aggregate.id
    IN  IF events_to_commit = <<>>
        THEN [result |-> Ok(<<>>), root |-> t.root, backend |-> backend]
        ELSE LET current_event_stream_version == root.version - Len(events_to_commit)
                 a == append(backend, aggregate_id,
                             Check_MustBe(current_event_stream_version), events_to_commit)
             IN  [result |-> IF a.result.ok THEN Ok(<<>>) ELSE Err(a.result.err),
                  root |-> t.root, backend |-> a.backend]

\* --------------------------------------------------------- BankAccountRoot
LockedAccount(transaction) ==
    Err(<<"LockedAccount", transaction.client_id, transaction.tx_id>>)

\* BankAccountRoot::open.
open(transaction) ==
    record_new(WasOpened(transaction.tx_id, transaction.client_id, transaction))

\* deposit without its locked-account guard.
deposit_NoLockCheck(root, transaction) ==
    IF transaction.amount = None THEN Err(<<"NoMoneyDeposited">>)
    ELSE IF transaction.amount[1] < 0
    THEN Err(<<"NegativeTransactionAttempted", transaction.tx_id>>)
    ELSE IF transaction.tx_id \in DOMAIN root.aggregate.pending_transactions
    THEN Err(<<"DuplicateTransactionRecipient", transaction.tx_id>>)
    ELSE record_that(root, DepositWasRecorded(transaction.amount[1], transaction))

\* deposit without its duplicate tx_id guard.
deposit_NoDuplicateCheck(root, transaction) ==
    IF root.aggregate.locked THEN LockedAccount(transaction)
    ELSE IF transaction.amount = None THEN Err(<<"NoMoneyDeposited">>)
    ELSE IF transaction.amount[1] < 0
    THEN Err(<<"NegativeTransactionAttempted", transaction.tx_id>>)
    ELSE record_that(root, DepositWasRecorded(transaction.amount[1], transaction))

\* BankAccountRoot::deposit.
deposit(root, transaction) ==
    IF root.aggregate.locked THEN LockedAccount(transaction)
    ELSE IF transaction.amount = None THEN Err(<<"NoMoneyDeposited">>)
    ELSE IF transaction.amount[1] < 0
    THEN Err(<<"NegativeTransactionAttempted", transaction.tx_id>>)
    ELSE IF transaction.tx_id \in DOMAIN root.aggregate.pending_transactions
    THEN Err(<<"DuplicateTransactionRecipient", transaction.tx_id>>)
    ELSE record_that(root, DepositWasRecorded(transaction.amount[1], transaction))

\* withdrawal without its available >= amount guard.
withdrawal_NoFundsCheck(root, transaction) ==
    IF root.aggregate.locked THEN LockedAccount(transaction)
    ELSE IF transaction.amount = None THEN Err(<<"NoMoneyDeposited">>)
    ELSE IF transaction.amount[1] < 0
    THEN Err(<<"NegativeTransactionAttempted", transaction.tx_id>>)
    ELSE IF transaction.tx_id \in DOMAIN root.aggregate.pending_transactions
    THEN Err(<<"DuplicateTransactionRecipient", transaction.tx_id>>)
    ELSE record_that(root, WithdrawalWasRecorded(transaction.amount[1], transaction))

\* BankAccountRoot::withdrawal.
withdrawal(root, transaction) ==
    IF root.aggregate.locked THEN LockedAccount(transaction)
    ELSE IF transaction.amount = None THEN Err(<<"NoMoneyDeposited">>)
    ELSE IF transaction.amount[1] < 0
    THEN Err(<<"NegativeTransactionAttempted", transaction.tx_id>>)
    ELSE IF root.aggregate.balance.available < transaction.amount[1]
    THEN Err(<<"InsufficientFunds">>)
    ELSE IF transaction.tx_id \in DOMAIN root.aggregate.pending_transactions
    THEN Err(<<"DuplicateTransactionRecipient", transaction.tx_id>>)
    ELSE record_that(root, WithdrawalWasRecorded(transaction.amount[1], transaction))

\* dispute accepting every pending transaction, whatever its status.
dispute_NoStatusCheck(root, transaction) ==
    LET pending == root.aggregate.pending_transactions
    IN  IF root.aggregate.locked THEN LockedAccount(transaction)
        ELSE IF transaction.tx_id \in DOMAIN pending
        THEN LET disputed == pending[transaction.tx_id]
             IN  IF disputed.amount = None THEN Err(<<"NoMoneyDeposited">>)
                 ELSE record_that(root,
                                  DisputeWasRecorded(disputed.tx_id, disputed.amount[1]))
        ELSE Err(<<"WrongTransactionRecipient", transaction.tx_id>>)

\* dispute recording the amount its command carries, when it carries one.
dispute_CommandAmount(root, transaction) ==
    LET pending == root.aggregate.pending_transactions
    IN  IF root.aggregate.locked THEN LockedAccount(transaction)
        ELSE IF /\ transaction.tx_id \in DOMAIN pending
                /\ can_be_disputed(pending[transaction.tx_id])
        THEN LET disputed == pending[transaction.tx_id]
                 amount == IF transaction.amount # None THEN transaction.amount
                           ELSE disputed.amount
             IN  IF amount = None THEN Err(<<"NoMoneyDeposited">>)
                 ELSE record_that(root, DisputeWasRecorded(disputed.tx_id, amount[1]))
        ELSE Err(<<"WrongTransactionRecipient", transaction.tx_id>>)

\* BankAccountRoot::dispute.
dispute(root, transaction) ==
    LET pending == root.aggregate.pending_transactions
    IN  IF root.aggregate.locked THEN LockedAccount(transaction)
        ELSE IF /\ transaction.tx_id \in DOMAIN pending
                /\ can_be_disputed(pending[transaction.tx_id])
        THEN LET disputed == pending[transaction.tx_id]
             IN  IF disputed.amount = None THEN Err(<<"NoMoneyDeposited">>)
                 ELSE record_that(root,
                                  DisputeWasRecorded(disputed.tx_id, disputed.amount[1]))
        ELSE Err(<<"WrongTransactionRecipient", transaction.tx_id>>)

\* BankAccountRoot::resolve.
resolve(root, transaction) ==
    LET pending == root.aggregate.pending_transactions
    IN  IF root.aggregate.locked THEN LockedAccount(transaction)
        ELSE IF /\ transaction.tx_id \in DOMAIN pending
                /\ can_complete_dispute(pending[transaction.tx_id])
        THEN LET disputed == pending[transaction.tx_id]
             IN  IF disputed.amount = None THEN Err(<<"NoMoneyDeposited">>)
                 ELSE record_that(root,
                                  ResolveWasRecorded(disputed.tx_id, disputed.amount[1]))
        ELSE Err(<<"WrongTransactionRecipient", transaction.tx_id>>)

\* chargeback accepting every pending transaction, whatever its status.
chargeback_NoStatusCheck(root, transaction) ==
    LET pending == root.aggregate.pending_transactions
    IN  IF root.aggregate.locked THEN LockedAccount(transaction)
        ELSE IF transaction.tx_id \in DOMAIN pending
        THEN LET disputed == pending[transaction.tx_id]
             IN  IF disputed.amount = None THEN Err(<<"NoMoneyDeposited">>)
                 ELSE record_that(root,
                                  ChargebackWasRecorded(disputed.tx_id, disputed.amount[1]))
        ELSE Err(<<"WrongTransactionRecipient", transaction.tx_id>>)

\* BankAccountRoot::chargeback.
chargeback(root, transaction) ==
    LET pending == root.aggregate.pending_transactions
    IN  IF root.aggregate.locked THEN LockedAccount(transaction)
        ELSE IF /\ transaction.tx_id \in DOMAIN pending
                /\ can_complete_dispute(pending[transaction.tx_id])
        THEN LET disputed == pending[transaction.tx_id]
             IN  IF disputed.amount = None THEN Err(<<"NoMoneyDeposited">>)
                 ELSE record_that(root,
                                  ChargebackWasRecorded(disputed.tx_id, disputed.amount[1]))
        ELSE Err(<<"WrongTransactionRecipient", transaction.tx_id>>)

\* Decimal::round_dp(4): banker's rounding (midpoint to the even digit) to a
\* multiple of 10^-4, that is, of 10 units.
round_dp4(x) ==
    LET q == x \div 10
        r == x % 10
    IN  IF r < 5 THEN 10 * q
        ELSE IF r > 5 THEN 10 * (q + 1)
        ELSE IF q % 2 = 0 THEN 10 * q ELSE 10 * (q + 1)

\* snapshot whose total forgets the held funds.
snapshot_TotalWithoutHeld(root) ==
    [client |-> root.aggregate.id,
     available |-> round_dp4(root.aggregate.balance.available),
     held |-> round_dp4(root.aggregate.balance.held),
     total |-> round_dp4(root.aggregate.balance.available),
     locked |-> root.aggregate.locked]

\* BankAccountRoot::snapshot.
snapshot(root) ==
    [client |-> root.aggregate.id,
     available |-> round_dp4(root.aggregate.balance.available),
     held |-> round_dp4(root.aggregate.balance.held),
     total |-> round_dp4(root.aggregate.balance.available + root.aggregate.balance.held),
     locked |-> root.aggregate.locked]

\* ------------------------------------------------------------------ service
\* matches!(GetError::NotFound, _err): the scrutinee is the constant
\* GetError::NotFound and `_err` is an identifier pattern, which matches
\* any value; the guard is true for every error get returns.
matches_NotFound(err) == TRUE

\* What Service::handle has in hand when it reaches save, or what it
\* returns before reaching it.
ToSave(r) ==
    IF r.ok THEN [done |-> FALSE, result |-> None, root |-> Some(r.val)]
    ELSE [done |-> TRUE, result |-> Some(Err(r.err)), root |-> None]

\* Service::handle up to its save: get has returned g, then the command
\* method runs.  A panic inside get unwinds through handle.
handle_get(g, command) ==
    LET ty == command.transaction_type
        propagated == [done |-> TRUE, result |-> Some(Err(g.err)), root |-> None]
    IN  IF panicked(g) THEN propagated
        ELSE IF ty = "Deposit"
        THEN IF g.ok THEN ToSave(deposit(g.val, command))
             ELSE IF matches_NotFound(g.err) THEN ToSave(open(command))
             ELSE [done |-> TRUE, result |-> Some(Ok(<<>>)), root |-> None]
        ELSE IF ty = "Withdrawal"
        THEN IF g.ok THEN ToSave(withdrawal(g.val, command)) ELSE propagated
        ELSE IF ty = "Dispute"
        THEN IF g.ok THEN ToSave(dispute(g.val, command)) ELSE propagated
        ELSE IF ty = "Resolve"
        THEN IF g.ok THEN ToSave(resolve(g.val, command)) ELSE propagated
        ELSE IF g.ok THEN ToSave(chargeback(g.val, command)) ELSE propagated

\* -------------------------------------------------------------------- state
VARIABLES
    event_streams,  \* InMemoryBackend.event_streams: stream id -> Vec<Persisted>
    pc,             \* per handler: "idle", "save" (between get and save), or
                    \* "panicked" (its task unwound)
    root,           \* per handler: the BankAccountRoot its handle call holds
    result,         \* per handler: what its last handle call returned
    call,           \* the outcome of the last direct call on the store or on
                    \* the repository
    state,          \* the Runtime's type-state: "Idle", "Running" (inside run),
                    \* "Dead", or "Dropped" (with_connector failed)
    connector,      \* Runtime.connector and the tasks run spawns from it:
                    \* name -> position of the task, item in hand, items yielded
    channel,        \* the flume channel: requests sent and not yet received
    account_ids,    \* Runtime.account_ids
    consumed,       \* per connector name: how many of its requests the consumer
                    \* loop has received
    output,         \* what run() of lib.rs wrote and returned, once it has
    reader          \* a caller's Stream returned by InMemory::stream: the
                    \* cloned Vec, the iterator's position in it and the
                    \* items polled so far; None before any call

rtvars == <<state, connector, channel, account_ids, consumed, output>>

vars == <<event_streams, pc, root, result, call,
          state, connector, channel, account_ids, consumed, output, reader>>

InitHandlers ==
    /\ pc = [h \in Handlers |-> "idle"]
    /\ root = [h \in Handlers |-> None]
    /\ result = [h \in Handlers |-> None]

\* Events persisted in all streams together.
TotalEvents == Len(event_streams[1]) + Len(event_streams[2])

\* Handler h is given command c, get returns g: handle runs up to the
\* await of repository.save, or returns an error before it.
HandleStep(h, c, g) ==
    LET r == handle_get(g, c)
    IN  /\ pc' = [pc EXCEPT ![h] = IF ~r.done THEN "save"
                                   ELSE IF panicked(r.result[1]) THEN "panicked"
                                   ELSE "idle"]
        /\ root' = [root EXCEPT ![h] = r.root]
        /\ result' = [result EXCEPT ![h] = r.result]
        /\ UNCHANGED <<event_streams, call, reader>>

\* The first half of Service::handle, for a command of client id.
HandleGet(h, id, commands, max_events) ==
    /\ pc[h] = "idle"
    /\ TotalEvents < max_events
    /\ UNCHANGED rtvars
    /\ LET g == get(event_streams, id)
       IN  \E c \in {x \in commands : x.client_id = id} : HandleStep(h, c, g)

\* This step is handler h taking command c up to its save.
Handles(h, c) ==
    /\ pc[h] = "idle"
    /\ HandleStep(h, c, get(event_streams, c.client_id))

\* The second half of Service::handle: repository.save and the return.
HandleSave(h) ==
    /\ pc[h] = "save"
    /\ LET s == save(event_streams, root[h][1])
       IN  /\ event_streams' = s.backend
           /\ root' = [root EXCEPT ![h] = Some(s.root)]
           /\ result' = [result EXCEPT ![h] = Some(s.result)]
           /\ pc' = [pc EXCEPT ![h] = "idle"]
    /\ UNCHANGED <<call, reader, rtvars>>

\* Runtime::new: no connector, no account id, not run yet.
InitRuntime ==
    /\ state = "Idle"
    /\ connector = <<>>
    /\ channel = <<>>
    /\ account_ids = {}
    /\ consumed = [name \in ConnectorNames |-> 0]
    /\ output = None

\* One handler: the service handles the commands one after the other.
Init ==
    /\ event_streams = EmptyBackend
    /\ InitHandlers
    /\ call = None
    /\ InitRuntime
    /\ reader = None

Next ==
    \/ \E id \in Clients : HandleGet(1, id, Commands, MaxEvents)
    \/ HandleSave(1)

Spec == Init /\ [][Next]_vars

\* Two handlers take commands of one client concurrently: each get and each
\* save is one atomic step (the store's lock), in any interleaving.
ConcClients == {1}

\* The racing commands carry well-formed amounts: a missing or negative
\* amount is rejected before anything is read from the root.
ConcCommands ==
    {c \in Commands : c.transaction_type \in {"Deposit", "Withdrawal"}
                         => c.amount \in {Some(5), Some(10)}}

NextConc ==
    \/ \E h \in Handlers, id \in ConcClients :
          HandleGet(h, id, ConcCommands, MaxConcEvents)
    \/ \E h \in Handlers : HandleSave(h)

SpecConc == Init /\ [][NextConc]_vars

\* ---------------------------------------------- direct use of the repository
\* A caller saves once more the root its handle call saved (or failed to
\* save): the uncommitted buffer was taken by the first save.
SaveAgain(h) ==
    /\ pc[h] = "idle"
    /\ root[h] # None
    /\ LET s == save(event_streams, root[h][1])
       IN  /\ event_streams' = s.backend
           /\ root' = [root EXCEPT ![h] = Some(s.root)]
           /\ call' = Some(s.result)
    /\ UNCHANGED <<pc, result, reader, rtvars>>

\* A caller saves the root that get has just returned.
SaveLoaded(id) ==
    /\ LET g == get(event_streams, id)
       IN  /\ g.ok
           /\ LET s == save(event_streams, g.val)
              IN  /\ event_streams' = s.backend
                  /\ call' = Some(s.result)
    /\ UNCHANGED <<pc, root, result, reader, rtvars>>

NextRepo ==
    \/ NextConc
    \/ \E h \in Handlers : SaveAgain(h)
    \/ \E id \in ConcClients : SaveLoaded(id)

SpecRepo == Init /\ [][NextRepo]_vars

\* --------------------------------------------------- direct use of the store
\* The store is generic in its events: two distinguishable ones suffice.
StoreEvents == {DisputeWasRecorded(1, 5), ResolveWasRecorded(1, 5)}
Batches == UNION {[1 .. n -> StoreEvents] : n \in 0 .. MaxBatch}
Checks == {Check_Any} \cup {Check_MustBe(v) : v \in 0 .. MaxStoreLen}

\* A caller's InMemory::append(id, version_check, events).  The write lock
\* makes the call atomic, so calls of any number of callers form a sequence.
AppendCall(id, version_check, events) ==
    /\ Len(event_streams[id]) + Len(events) <= MaxStoreLen
    /\ LET a == append(event_streams, id, version_check, events)
       IN  /\ event_streams' = a.backend
           /\ call' = Some(a.result)
    /\ UNCHANGED <<pc, root, result, reader, rtvars>>

NextStore ==
    \E id \in Clients, version_check \in Checks, events \in Batches :
        AppendCall(id, version_check, events)

SpecStore == Init /\ [][NextStore]_vars

\* ------------------------------------------------- a stream being consumed
Selects == {VersionSelect_All} \cup {VersionSelect_From(v) : v \in 0 .. MaxStoreLen}

\* The filter closure of InMemory::stream.
Selected(evt, select) == select = VersionSelect_All \/ evt.version >= select[2]

\* Filter::next over vec::IntoIter: the index of the first item after pos
\* that passes the filter, 0 when the items are exhausted.
poll_next(events, pos, select) ==
    LET hits == {j \in pos + 1 .. Len(events) : Selected(events[j], select)}
    IN  IF hits = {} THEN 0 ELSE CHOOSE j \in hits : \A k \in hits : j <= k

\* InMemory::stream(id, select): under the read lock the Vec of the stream
\* is cloned; the Stream returned owns the clone and has polled nothing.
StreamCall(id, select) ==
    /\ reader # None => reader[1].done
    /\ reader' = Some([id |-> id, select |-> select, events |-> event_streams[id],
                       pos |-> 0, seen |-> <<>>, done |-> FALSE])
    /\ UNCHANGED <<event_streams, pc, root, result, call, rtvars>>

\* A poll iterating the backend's Vec in place of the clone.
StreamNext_Live ==
    /\ reader # None
    /\ ~reader[1].done
    /\ LET r == reader[1]
           j == poll_next(event_streams[r.id], r.pos, r.select)
       IN  reader' = IF j = 0
                     THEN Some([r EXCEPT !.pos = Len(event_streams[r.id]), !.done = TRUE])
                     ELSE Some([r EXCEPT !.pos = j,
                                         !.seen = Append(@, event_streams[r.id][j])])
    /\ UNCHANGED <<event_streams, pc, root, result, call, rtvars>>

\* The caller polls the Stream once: the next item of the clone that passes
\* the filter is yielded, or the Stream ends.
StreamNext ==
    /\ reader # None
    /\ ~reader[1].done
    /\ LET r == reader[1]
           j == poll_next(r.events, r.pos, r.select)
       IN  reader' = IF j = 0
                     THEN Some([r EXCEPT !.pos = Len(r.events), !.done = TRUE])
                     ELSE Some([r EXCEPT !.pos = j, !.seen = Append(@, r.events[j])])
    /\ UNCHANGED <<event_streams, pc, root, result, call, rtvars>>

\* One caller consumes streams while others append: stream holds the lock
\* only for the clone, so appends fall between any two polls.
NextStream ==
    \/ \E id \in ConcClients, events \in Batches : AppendCall(id, Check_Any, events)
    \/ \E id \in ConcClients, select \in Selects : StreamCall(id, select)
    \/ StreamNext

SpecStream == Init /\ [][NextStream]_vars

\* -------------------------------------------- streams not written by save
\* Events a caller of the store can append in any order, of which some
\* orders are not histories of an account.
CorruptEvents ==
    {WasOpened(1, 1, Transaction(1, 1, "Deposit", Some(10))),
     DisputeWasRecorded(1, 10),
     ResolveWasRecorded(1, 10),
     ChargebackWasRecorded(1, 10),
     DisputeWasRecorded(2, 5)}

\* The commands the service is given for such a stream.
CorruptCommands ==
    {Transaction(1, 2, "Deposit", Some(5)),
     Transaction(1, 2, "Deposit", None),
     Transaction(1, 1, "Resolve", None)}

\* A caller's EventSourced::get(id).
GetCall(id) ==
    /\ call' = Some(get(event_streams, id))
    /\ UNCHANGED <<event_streams, pc, root, result, reader, rtvars>>

NextCorrupt ==
    \/ \E id \in ConcClients, evt \in CorruptEvents :
          AppendCall(id, Check_Any, <<evt>>)
    \/ \E id \in ConcClients : GetCall(id)
    \/ \E id \in ConcClients : HandleGet(1, id, CorruptCommands, MaxStoreLen)
    \/ HandleSave(1)

SpecCorrupt == Init /\ [][NextCorrupt]_vars

\* ------------------------------------------------------------------ runtime
\* flume::bounded(8192).
ChannelCapacity == 8192

\* The transactions a connector may yield: a deposit that opens client 1,
\* the dispute of that deposit, a deposit that opens client 2 and a
\* withdrawal client 2 can never afford.
RunCommands ==
    {Transaction(1, 1, "Deposit", Some(10)),
     Transaction(1, 1, "Dispute", None),
     Transaction(2, 1, "Deposit", Some(5)),
     Transaction(2, 2, "Withdrawal", Some(10))}

\* The transactions of the runs checked for termination: one the service
\* accepts once and one it always rejects.
FairCommands ==
    {Transaction(1, 1, "Deposit", Some(10)),
     Transaction(2, 2, "Withdrawal", Some(10))}

\* What run() of lib.rs returns, with the rows its writer was given.
Output(res, rows) == [result |-> res, rows |-> rows]

\* Runtime::with_connector.  It takes the runtime by value: on Duplicated
\* the runtime is dropped and run() of lib.rs returns the error.
WithConnector(name) ==
    /\ state = "Idle"
    /\ IF name \in DOMAIN connector
       THEN /\ state' = "Dropped"
            /\ output' = Some(Output(Err(<<"Duplicated">>), <<>>))
            /\ UNCHANGED connector
       ELSE /\ connector' =
                   [n \in DOMAIN connector \cup {name} |->
                       IF n = name
                       THEN [at |-> "registered", item |-> None, yielded |-> 0]
                       ELSE connector[n]]
            /\ UNCHANGED <<state, output>>
    /\ UNCHANGED <<event_streams, pc, root, result, call, reader,
                   channel, account_ids, consumed>>

\* Runtime::run up to its consumer loop: the channel is created, one task
\* per connector is spawned and the runtime's own sender is dropped.
Run ==
    /\ state = "Idle"
    /\ state' = "Running"
    /\ channel' = <<>>
    /\ connector' = [n \in DOMAIN connector |-> [connector[n] EXCEPT !.at = "recv"]]
    /\ UNCHANGED <<event_streams, pc, root, result, call, reader,
                   account_ids, consumed, output>>

\* Transactions the connectors have yielded so far, all together.
Yielded(name) == IF name \in DOMAIN connector THEN connector[name].yielded ELSE 0
TotalYielded == Yielded("a") + Yielded("b")

\* A recv error of one connector ending the tasks of all of them.
ConnectorRecv_ErrorStopsAll(name, commands, max_yield) ==
    /\ state = "Running"
    /\ name \in DOMAIN connector
    /\ connector[name].at = "recv"
    /\ \/ /\ TotalYielded < max_yield
          /\ \E request \in commands :
                 connector' =
                     [connector EXCEPT
                        ![name] = [at |-> "send",
                                   item |-> Some([request |-> request, src |-> name,
                                                  n |-> @.yielded + 1]),
                                   yielded |-> @.yielded + 1]]
       \/ connector' = [n \in DOMAIN connector |->
                           [connector[n] EXCEPT !.at = "done", !.item = None]]
    /\ UNCHANGED <<event_streams, pc, root, result, call, reader,
                   state, channel, account_ids, consumed, output>>

\* A connector task at connector.recv().await: the source yields a request,
\* or returns an error and the task ends, dropping its sender.  The item
\* carries the connector's name and the request's rank in its sequence.
ConnectorRecv(name, commands, max_yield) ==
    /\ state = "Running"
    /\ name \in DOMAIN connector
    /\ connector[name].at = "recv"
    /\ \/ /\ TotalYielded < max_yield
          /\ \E request \in commands :
                 connector' =
                     [connector EXCEPT
                        ![name] = [at |-> "send",
                                   item |-> Some([request |-> request, src |-> name,
                                                  n |-> @.yielded + 1]),
                                   yielded |-> @.yielded + 1]]
       \/ connector' = [connector EXCEPT ![name].at = "done"]
    /\ UNCHANGED <<event_streams, pc, root, result, call, reader,
                   state, channel, account_ids, consumed, output>>

\* send_async putting the request at the head of the channel.
ConnectorSend_AtHead(name) ==
    /\ name \in DOMAIN connector
    /\ connector[name].at = "send"
    /\ state = "Running"
    /\ Len(channel) < ChannelCapacity
    /\ channel' = <<connector[name].item[1]>> \o channel
    /\ connector' = [connector EXCEPT ![name].at = "recv", ![name].item = None]
    /\ UNCHANGED <<event_streams, pc, root, result, call, reader,
                   state, account_ids, consumed, output>>

\* A connector task at tx.send_async(request).await: it waits while the
\* channel is full; the send fails, and the task ends, only when the
\* receiver is gone.
ConnectorSend(name) ==
    /\ name \in DOMAIN connector
    /\ connector[name].at = "send"
    /\ IF state = "Running"
       THEN /\ Len(channel) < ChannelCapacity
            /\ channel' = Append(channel, connector[name].item[1])
            /\ connector' = [connector EXCEPT ![name].at = "recv", ![name].item = None]
       ELSE /\ connector' = [connector EXCEPT ![name].at = "done", ![name].item = None]
            /\ UNCHANGED channel
    /\ UNCHANGED <<event_streams, pc, root, result, call, reader,
                   state, account_ids, consumed, output>>

\* Every connector task has ended: every sender is dropped.
SendersDropped == \A name \in DOMAIN connector : connector[name].at = "done"

\* The consumer loop leaving at the first error svc.handle returns.
ConsumerRecv_StopsOnError ==
    /\ state = "Running"
    /\ pc[1] = "idle"
    /\ channel # <<>>
    /\ LET item == Head(channel)
           request == item.request
       IN  /\ channel' = Tail(channel)
           /\ account_ids' = account_ids \cup {request.client_id}
           /\ consumed' = [consumed EXCEPT ![item.src] = @ + 1]
           /\ HandleStep(1, request, get(event_streams, request.client_id))
    /\ state' = IF pc'[1] = "idle" THEN "Dead" ELSE state
    /\ UNCHANGED <<connector, output>>

\* The consumer loop receives a request, inserts its client id and calls
\* svc.handle, which runs up to its save.
ConsumerRecv ==
    /\ state = "Running"
    /\ pc[1] = "idle"
    /\ channel # <<>>
    /\ LET item == Head(channel)
           request == item.request
       IN  /\ channel' = Tail(channel)
           /\ account_ids' = account_ids \cup {request.client_id}
           /\ consumed' = [consumed EXCEPT ![item.src] = @ + 1]
           /\ HandleStep(1, request, get(event_streams, request.client_id))
    /\ UNCHANGED <<state, connector, output>>

\* svc.handle saves and returns; an error is logged and the loop goes on.
ConsumerSave ==
    /\ state = "Running"
    /\ HandleSave(1)

\* The consumer loop ending on an empty channel while senders are alive.
ConsumerClose_IgnoresSenders ==
    /\ state = "Running"
    /\ pc[1] = "idle"
    /\ channel = <<>>
    /\ state' = "Dead"
    /\ UNCHANGED <<event_streams, pc, root, result, call, reader,
                   connector, channel, account_ids, consumed, output>>

\* rx.recv_async() fails: the channel is empty and every sender is dropped.
\* run returns the Dead runtime with the account ids it collected.
ConsumerClose ==
    /\ state = "Running"
    /\ pc[1] = "idle"
    /\ channel = <<>>
    /\ SendersDropped
    /\ state' = "Dead"
    /\ UNCHANGED <<event_streams, pc, root, result, call, reader,
                   connector, channel, account_ids, consumed, output>>

\* The loop of run() in lib.rs over account_ids (a BTreeSet: ascending):
\* get the root, serialize its snapshot; the ? on get ends run with the error.
RECURSIVE serialize_snapshots(_, _, _)
serialize_snapshots(backend, ids, rows) ==
    IF ids = {} THEN Output(Ok(<<>>), rows)
    ELSE LET id == CHOOSE i \in ids : \A j \in ids : i <= j
             g == get(backend, id)
         IN  IF ~g.ok THEN Output(Err(g.err), rows)
             ELSE serialize_snapshots(backend, ids \ {id}, Append(rows, snapshot(g.val)))

\* run() of lib.rs after engine.run(): the snapshot rows are written.
Emit ==
    /\ state = "Dead"
    /\ output = None
    /\ output' = Some(serialize_snapshots(event_streams, account_ids, <<>>))
    /\ UNCHANGED <<event_streams, pc, root, result, call, reader,
                   state, connector, channel, account_ids, consumed>>

\* Every step of a run but the connectors' recv.
RunStep ==
    \/ \E name \in ConnectorNames : WithConnector(name)
    \/ Run
    \/ \E name \in ConnectorNames : ConnectorSend(name)
    \/ ConsumerRecv
    \/ ConsumerSave
    \/ ConsumerClose
    \/ Emit

NextRun ==
    \/ \E name \in ConnectorNames : ConnectorRecv(name, RunCommands, MaxYield)
    \/ RunStep

SpecRun == Init /\ [][NextRun]_vars

NextFair ==
    \/ \E name \in ConnectorNames : ConnectorRecv(name, FairCommands, MaxFairYield)
    \/ RunStep

\* The executor runs every spawned task and the consumer loop: a step that
\* stays possible is eventually taken.
FairRun ==
    /\ Init /\ [][NextFair]_vars
    /\ \A name \in ConnectorNames :
           /\ WF_vars(ConnectorRecv(name, FairCommands, MaxFairYield))
           /\ WF_vars(ConnectorSend(name))
    /\ WF_vars(ConsumerRecv) /\ WF_vars(ConsumerSave) /\ WF_vars(ConsumerClose)

\* Two connectors carrying disjoint clients, each reading its own input in
\* order: connector a the transactions of client 1, connector b those of
\* client 2.  Only the interleaving of the tasks is left open.
ScriptOf(name) ==
    IF name = "a"
    THEN <<Transaction(1, 1, "Deposit", Some(10)),
           Transaction(1, 1, "Dispute", None)>>
    ELSE <<Transaction(2, 2, "Withdrawal", Some(10)),
           Transaction(2, 1, "Deposit", Some(5)),
           Transaction(2, 2, "Withdrawal", Some(10))>>

\* What the connector yields next: the next row of its input, if any.
ScriptNext(name) ==
    IF Yielded(name) < Len(ScriptOf(name))
    THEN {ScriptOf(name)[Yielded(name) + 1]}
    ELSE {}

ScriptTotal == Len(ScriptOf("a")) + Len(ScriptOf("b"))

NextDisjoint ==
    \/ \E name \in ConnectorNames : ConnectorRecv(name, ScriptNext(name), ScriptTotal)
    \/ RunStep

SpecDisjoint == Init /\ [][NextDisjoint]_vars

\* ==================================================================== claims

\* The last version of a stream as the claims mean it: the version of its
\* last persisted event, 0 for a stream without events.
LastVersion(id) ==
    IF Len(event_streams[id]) = 0 THEN 0
    ELSE event_streams[id][Len(event_streams[id])].version

\* C1: append(stream, MustBe(v), events) succeeds if and only if the
\* stream's last version equals v; when it does not, append returns
\* Conflict{expected: v, actual: last} and no stream changes.
C1_MustBeSucceedsIffLastVersion ==
    [][\A id \in Clients, v \in 0 .. MaxStoreLen, events \in Batches :
          AppendCall(id, Check_MustBe(v), events) =>
              /\ call'[1].ok <=> LastVersion(id) = v
              /\ LastVersion(id) # v =>
                     /\ call' = Some(Err(<<"Conflict", v, LastVersion(id)>>))
                     /\ event_streams' = event_streams]_vars

\* A MustBe(1) append on a stream at version 2 was refused, and a stream
\* holds events that a MustBe append put there.
C1_Witness ==
    /\ call = Some(Err(<<"Conflict", 1, 2>>))
    /\ \E id \in Clients : Len(event_streams[id]) = 2

\* C2: in every reachable state of the store the versions of each stream's
\* persisted events are 1, 2, ..., n in storage order, and a successful
\* append of k >= 1 events to a stream at version n returns n + k.
VersionsContiguous ==
    \A id \in Clients :
        \A i \in 1 .. Len(event_streams[id]) :
            /\ event_streams[id][i].version = i
            /\ event_streams[id][i].stream_id = id

C2_VersionsContiguous ==
    /\ []VersionsContiguous
    /\ [][\A id \in Clients, version_check \in Checks, events \in Batches :
            (AppendCall(id, version_check, events) /\ Len(events) >= 1 /\ call'[1].ok)
                => call'[1].val = Len(event_streams[id]) + Len(events)]_vars

\* An append of a batch onto a stream that already held events returned 3.
C2_Witness ==
    /\ call = Some(Ok(3))
    /\ \E id \in Clients : Len(event_streams[id]) = 3
    /\ \E id \in Clients : Len(event_streams[id]) = 1

\* Handler h's last handle call reached save and has returned.
Saved(h) == pc[h] = "idle" /\ root[h] # None /\ result[h] # None

\* The stream version handler h's root was loaded at: its version minus the
\* one event it recorded (0 for a root opened after NotFound).
LoadedVersion(h) == root[h][1].version - 1

IsConflict(r) == ~r.ok /\ r.err[1] = "Conflict"

\* C3: two handlers that loaded the root of the same client at the same
\* stream version and each recorded an event: exactly one save succeeds, the
\* other returns Conflict, appends nothing, and is not retried (the handler
\* is back to idle with an empty uncommitted buffer).
RacersSplit ==
    \A h1, h2 \in Handlers :
        (/\ h1 # h2
         /\ Saved(h1) /\ Saved(h2)
         /\ root[h1][1].aggregate.id = root[h2][1].aggregate.id
         /\ LoadedVersion(h1) = LoadedVersion(h2))
        => \/ result[h1][1].ok /\ IsConflict(result[h2][1])
           \/ result[h2][1].ok /\ IsConflict(result[h1][1])

ConflictIsFinal ==
    \A h \in Handlers :
        (Saved(h) /\ ~result[h][1].ok)
        => /\ IsConflict(result[h][1])
           /\ result[h][1].err[2] = LoadedVersion(h)
           /\ result[h][1].err[3] > LoadedVersion(h)
           /\ pc[h] = "idle"
           /\ root[h][1].recorded_events = <<>>

C3_ExactlyOneRacerSaves ==
    /\ [](RacersSplit /\ ConflictIsFinal)
    /\ [][\A h \in Handlers :
            (pc[h] = "save" /\ pc'[h] = "idle" /\ ~result'[h][1].ok)
                => /\ IsConflict(result'[h][1])
                   /\ event_streams' = event_streams]_vars

\* Both handlers loaded client 1 at version 1 and recorded an event; handler
\* 1 saved it as version 2 and handler 2 got the conflict.
C3_Witness ==
    /\ Saved(1) /\ Saved(2)
    /\ LoadedVersion(1) = 1 /\ LoadedVersion(2) = 1
    /\ result[1] = Some(Ok(<<>>))
    /\ result[2] = Some(Err(<<"Conflict", 1, 2>>))
    /\ root[1][1].aggregate.id = 1 /\ root[2][1].aggregate.id = 1
    /\ Len(event_streams[1]) = 2

\* The account of client id as get rebuilds it from the stream, for a
\* client whose stream get accepts.
HasAccount(id) == get(event_streams, id).ok
AccountOf(id) == get(event_streams, id).val.aggregate

\* The live root: record_new on the first event, record_that on each later
\* one, as the command methods build it.
RECURSIVE record_all(_, _)
record_all(live, events) ==
    IF events = <<>> \/ ~live.ok THEN live
    ELSE record_all(record_that(live.val, Head(events)), Tail(events))

LiveRoot(events) == record_all(record_new(Head(events)), Tail(events))

\* C4: the root get rebuilds by replaying a client's stream has the same
\* account state and the same version as the live root record_new and
\* record_that built while the commands ran.
C4_RehydratedEqualsLive ==
    /\ \A id \in Clients :
           event_streams[id] # <<>> =>
               LET g == get(event_streams, id)
                   live == LiveRoot(Events(event_streams[id]))
               IN  /\ g.ok /\ live.ok
                   /\ g.val.aggregate = live.val.aggregate
                   /\ g.val.version = live.val.version
                   /\ g.val.version = Len(event_streams[id])
    /\ (Saved(1) /\ result[1][1].ok) =>
           get(event_streams, root[1][1].aggregate.id) = Ok(root[1][1])

\* A handler's live root at version 3, with a disputed transaction, has
\* just been saved.
C4_Witness ==
    /\ Saved(1) /\ result[1][1].ok
    /\ root[1][1].version = 3
    /\ root[1][1].aggregate.balance.held > 0
    /\ \E t \in DOMAIN root[1][1].aggregate.pending_transactions :
           root[1][1].aggregate.pending_transactions[t].status = "Disputed"

\* C5: once an account is locked, every later command for that client is
\* rejected with LockedAccount and records no event; the account's stream
\* (and so its balance and pending transactions) never changes again.
Locked(id) == HasAccount(id) /\ AccountOf(id).locked

C5_LockedAccountFrozen ==
    [][\A id \in Clients :
          Locked(id) =>
              /\ event_streams'[id] = event_streams[id]
              /\ get(event_streams', id) = get(event_streams, id)
              /\ \A c \in Commands :
                     (c.client_id = id /\ Handles(1, c)) =>
                         /\ result'[1] = Some(Err(<<"LockedAccount", id, c.tx_id>>))
                         /\ pc'[1] = "idle"]_vars

\* A command for the locked client 1 was rejected with LockedAccount.
C5_Witness ==
    /\ Locked(1)
    /\ result[1] = Some(Err(<<"LockedAccount", 1, 2>>))
    /\ pc[1] = "idle"

\* C6: for every account, after any sequence of commands, held >= 0.
C6_HeldNonNegative ==
    /\ \A id \in Clients : HasAccount(id) => AccountOf(id).balance.held >= 0
    /\ \A h \in Handlers : root[h] # None => root[h][1].aggregate.balance.held >= 0

\* An account whose held funds went up by a dispute and back down to zero
\* by the chargeback.
C6_Witness ==
    \E id \in Clients :
        /\ Locked(id)
        /\ AccountOf(id).balance.held = 0
        /\ Len(event_streams[id]) >= 3

\* The last event of the stream of client id.
LastEvent(streams, id) == streams[id][Len(streams[id])].event

\* This step records, for client id, the dispute of a transaction of type
\* ty made while available was below the disputed amount.
DisputeBelowAmount(id, ty) ==
    /\ Len(event_streams'[id]) = Len(event_streams[id]) + 1
    /\ LET e == LastEvent(event_streams', id)
       IN  /\ e.kind = "DisputeWasRecorded"
           /\ AccountOf(id).pending_transactions[e.tx_id].transaction_type = ty
           /\ AccountOf(id).balance.available < e.amount

\* This step takes the available balance of client id from non-negative
\* (or no account) to negative.
TurnsNegative(id) ==
    /\ get(event_streams', id).ok
    /\ get(event_streams', id).val.aggregate.balance.available < 0
    /\ HasAccount(id) => AccountOf(id).balance.available >= 0

\* C7 as claimed: available becomes negative only by the dispute of a
\* withdrawal made while available is below the disputed amount; no other
\* command, the dispute of a deposit in particular, makes it negative.
C7_Original ==
    [][\A id \in Clients : TurnsNegative(id) => DisputeBelowAmount(id, "Withdrawal")]_vars

\* C7 amended: available becomes negative only by the dispute of a deposit
\* made while available is below the disputed amount; no other command, the
\* dispute of a withdrawal in particular, takes it from non-negative to
\* negative.
C7_NegativeOnlyByDepositDispute ==
    [][\A id \in Clients : TurnsNegative(id) => DisputeBelowAmount(id, "Deposit")]_vars

\* The dispute of a deposit has just left an account with a negative
\* available balance.
C7_Witness ==
    \E id \in Clients :
        /\ HasAccount(id)
        /\ AccountOf(id).balance.available < 0
        /\ LastEvent(event_streams, id).kind = "DisputeWasRecorded"

\* The snapshot run() writes for client id.
Snapshot(id) == snapshot(get(event_streams, id).val)

\* C8 as claimed: the snapshot of every account has available >= 0 and
\* held >= 0.
C8_Original ==
    \A id \in Clients :
        HasAccount(id) => Snapshot(id).available >= 0 /\ Snapshot(id).held >= 0

\* Some deposit of the account is disputed or charged back.
DepositInDispute(account) ==
    \E t \in DOMAIN account.pending_transactions :
        /\ account.pending_transactions[t].transaction_type = "Deposit"
        /\ account.pending_transactions[t].status \in {"Disputed", "ChargedBack"}

\* C8 amended: the snapshot of every account has held >= 0, and has
\* available >= 0 unless a deposit of the account is disputed or charged
\* back.
C8_SnapshotNonNegative ==
    \A id \in Clients :
        HasAccount(id) =>
            /\ Snapshot(id).held >= 0
            /\ ~DepositInDispute(AccountOf(id)) => Snapshot(id).available >= 0

\* A snapshot with a negative available field, of an account whose deposit
\* was charged back.
C8_Witness ==
    \E id \in Clients :
        /\ HasAccount(id)
        /\ Snapshot(id).available < 0
        /\ Snapshot(id).locked
        /\ DepositInDispute(AccountOf(id))

\* C9 as claimed: in every snapshot, total equals the sum of the snapshot's
\* available and held fields, balances with more than four decimal places
\* included.
C9_Original ==
    \A id \in Clients :
        HasAccount(id) => Snapshot(id).total = Snapshot(id).available + Snapshot(id).held

\* x has at most four decimal places.
FourPlaces(x) == x % 10 = 0

Abs(x) == IF x < 0 THEN -x ELSE x

\* C9 amended: total is available + held rounded to four decimal places;
\* it equals the sum of the snapshot's available and held fields when both
\* balances have at most four decimal places, and differs from that sum by
\* at most 0.0001 otherwise.
C9_SnapshotTotal ==
    \A id \in Clients :
        HasAccount(id) =>
            LET b == AccountOf(id).balance
                s == Snapshot(id)
            IN  /\ Abs(s.total - (b.available + b.held)) <= 5
                /\ FourPlaces(s.total)
                /\ (FourPlaces(b.available) /\ FourPlaces(b.held))
                       => s.total = s.available + s.held
                /\ Abs(s.total - (s.available + s.held)) <= 10

\* A snapshot of balances 0.00010 and 0.00005: available 0.0001, held 0.0000
\* and total 0.0002.
C9_Witness ==
    \E id \in Clients :
        /\ HasAccount(id)
        /\ AccountOf(id).balance = [available |-> 10, held |-> 5]
        /\ Snapshot(id).total = Snapshot(id).available + Snapshot(id).held + 10

\* C10: a handle call that returns Ok appended exactly one event to the
\* stream of the command's client, at version last + 1; a call that returns
\* an error appended none; the streams of the other clients are unchanged.
C10_HandleAppendsOneOrNone ==
    [][/\ pc[1] = "idle" =>
              /\ event_streams' = event_streams
              /\ pc'[1] = "idle" => ~result'[1][1].ok
              /\ pc'[1] = "save" =>
                     /\ Len(root'[1][1].recorded_events) = 1
                     /\ \A c \in Commands :
                            Handles(1, c) => root'[1][1].aggregate.id = c.client_id
       /\ (pc[1] = "save" /\ pc'[1] = "idle") =>
              LET id == root[1][1].aggregate.id
              IN  IF result'[1][1].ok
                  THEN /\ event_streams'[id] =
                              Append(event_streams[id],
                                     [stream_id |-> id,
                                      version |-> LastVersion(id) + 1,
                                      event |-> root[1][1].recorded_events[1]])
                       /\ \A other \in Clients \ {id} :
                              event_streams'[other] = event_streams[other]
                  ELSE event_streams' = event_streams]_vars

\* A handle call for client 2 returned Ok and its event is version 2 of the
\* stream, while client 1 has a stream of its own.
C10_Witness ==
    /\ Saved(1) /\ result[1] = Some(Ok(<<>>))
    /\ root[1][1].aggregate.id = 2
    /\ Len(event_streams[2]) = 2
    /\ Len(event_streams[1]) >= 1

\* Handler 1 returned the error err from this step, without reaching save,
\* and no stream changed.
RejectedWith(err) ==
    /\ result'[1] = Some(Err(err))
    /\ pc'[1] = "idle"
    /\ root'[1] = None
    /\ event_streams' = event_streams

\* The commands of the given types that name client id.
CommandsOf(id, types) ==
    {c \in Commands : c.client_id = id /\ c.transaction_type \in types}

\* Command c is a withdrawal with an amount, account is unlocked and the
\* amount exceeds its available balance.
WithdrawalAboveAvailable(c, account) ==
    /\ c.amount # None
    /\ ~account.locked
    /\ c.amount[1] > account.balance.available

\* This step persists a withdrawal event for client id.
WithdrawalPersisted(id) ==
    /\ Len(event_streams'[id]) = Len(event_streams[id]) + 1
    /\ LastEvent(event_streams', id).kind = "WithdrawalWasRecorded"

\* C11 as claimed: a withdrawal on an existing unlocked account whose amount
\* exceeds available is rejected with InsufficientFunds and changes nothing.
C11_Original ==
    [][pc[1] = "idle" =>
          \A id \in Clients :
              LET g == get(event_streams, id)
              IN  g.ok =>
                      \A c \in CommandsOf(id, {"Withdrawal"}) :
                          (/\ WithdrawalAboveAvailable(c, g.val.aggregate)
                           /\ HandleStep(1, c, g))
                              => RejectedWith(<<"InsufficientFunds">>)]_vars

\* C11 amended: a withdrawal on an existing unlocked account whose amount is
\* non-negative and exceeds available is rejected with InsufficientFunds and
\* changes nothing (a negative amount is rejected with
\* NegativeTransactionAttempted before available is read); no accepted
\* withdrawal makes available negative.
C11_InsufficientFundsRejected ==
    [][/\ pc[1] = "idle" =>
              \A id \in Clients :
                  LET g == get(event_streams, id)
                  IN  g.ok =>
                          \A c \in CommandsOf(id, {"Withdrawal"}) :
                              (/\ WithdrawalAboveAvailable(c, g.val.aggregate)
                               /\ HandleStep(1, c, g))
                                  => IF c.amount[1] >= 0
                                     THEN RejectedWith(<<"InsufficientFunds">>)
                                     ELSE RejectedWith(
                                              <<"NegativeTransactionAttempted", c.tx_id>>)
       /\ \A id \in Clients :
             WithdrawalPersisted(id) =>
                 /\ AccountOf(id).balance.available
                        >= LastEvent(event_streams', id).amount
                 /\ get(event_streams', id).val.aggregate.balance.available >= 0]_vars

\* A withdrawal of 0.0001 from an unlocked account holding 0.00005 was
\* rejected with InsufficientFunds.
C11_Witness ==
    /\ result[1] = Some(Err(<<"InsufficientFunds">>))
    /\ pc[1] = "idle"
    /\ \E id \in Clients :
           /\ HasAccount(id)
           /\ ~AccountOf(id).locked
           /\ AccountOf(id).balance.available = 5

\* The tx_id of command c is a key of the pending transactions of account.
DuplicateTxId(c, account) == c.tx_id \in DOMAIN account.pending_transactions

\* The checks deposit and withdrawal make before the duplicate check all
\* pass for command c on account.
ReachesDuplicateCheck(c, account) ==
    /\ ~account.locked
    /\ c.amount # None
    /\ c.amount[1] >= 0
    /\ c.transaction_type = "Withdrawal" => account.balance.available >= c.amount[1]

\* The events of the stream of client id that put transaction t into the
\* account: the opening, a deposit or a withdrawal.
AppliedAt(id, t) ==
    {i \in 1 .. Len(event_streams[id]) :
        LET e == event_streams[id][i].event
        IN  /\ e.kind \in {"WasOpened", "DepositWasRecorded", "WithdrawalWasRecorded"}
            /\ e.transaction.tx_id = t}

\* C12 as claimed: a deposit or withdrawal whose tx_id is already pending is
\* rejected with DuplicateTransactionRecipient and changes nothing.
C12_Original ==
    [][pc[1] = "idle" =>
          \A id \in Clients :
              LET g == get(event_streams, id)
              IN  g.ok =>
                      \A c \in CommandsOf(id, {"Deposit", "Withdrawal"}) :
                          (DuplicateTxId(c, g.val.aggregate) /\ HandleStep(1, c, g))
                              => RejectedWith(
                                     <<"DuplicateTransactionRecipient", c.tx_id>>)]_vars

\* C12 amended: a deposit or withdrawal whose tx_id is already pending is
\* always rejected and changes neither the balance nor the stream, so each
\* tx_id is applied to an account at most once; the error is
\* DuplicateTransactionRecipient when the account is unlocked, the amount is
\* present and non-negative and, for a withdrawal, covered by available, and
\* the error of the earlier failing check otherwise.
C12_DuplicateTxIdRejected ==
    /\ [](\A id \in Clients, t \in TxIds : Cardinality(AppliedAt(id, t)) <= 1)
    /\ [][pc[1] = "idle" =>
             \A id \in Clients :
                 LET g == get(event_streams, id)
                 IN  g.ok =>
                         \A c \in CommandsOf(id, {"Deposit", "Withdrawal"}) :
                             (DuplicateTxId(c, g.val.aggregate) /\ HandleStep(1, c, g))
                                 => /\ pc'[1] = "idle"
                                    /\ ~result'[1][1].ok
                                    /\ event_streams' = event_streams
                                    /\ IF ReachesDuplicateCheck(c, g.val.aggregate)
                                       THEN RejectedWith(
                                                <<"DuplicateTransactionRecipient", c.tx_id>>)
                                       ELSE result'[1][1].err[1] \in
                                                {"LockedAccount", "NoMoneyDeposited",
                                                 "NegativeTransactionAttempted",
                                                 "InsufficientFunds"}]_vars

\* A command reusing tx_id 1 on the account that holds transaction 1 was
\* rejected as a duplicate.
C12_Witness ==
    /\ result[1] = Some(Err(<<"DuplicateTransactionRecipient", 1>>))
    /\ pc[1] = "idle"
    /\ \E id \in Clients :
           /\ HasAccount(id)
           /\ 1 \in DOMAIN AccountOf(id).pending_transactions
           /\ Len(event_streams[id]) >= 2

\* Transaction t is pending in account with status st.
PendingWithStatus(account, t, st) ==
    /\ t \in DOMAIN account.pending_transactions
    /\ account.pending_transactions[t].status = st

\* Handler 1 accepted the command of this step: it goes on to save a root
\* that recorded one event of the given kind for transaction t.
AcceptedAs(kind, t) ==
    /\ pc'[1] = "save"
    /\ Len(root'[1][1].recorded_events) = 1
    /\ root'[1][1].recorded_events[1].kind = kind
    /\ root'[1][1].recorded_events[1].tx_id = t

\* C13 as claimed: a dispute is accepted only for a tx_id pending in its own
\* client's account with status ok; for any other tx_id (unknown, of another
\* client, already disputed or charged back) it fails with
\* WrongTransactionRecipient(tx_id) and changes nothing.
C13_Original ==
    [][pc[1] = "idle" =>
          \A id \in Clients :
              LET g == get(event_streams, id)
              IN  g.ok =>
                      \A c \in CommandsOf(id, {"Dispute"}) :
                          HandleStep(1, c, g) =>
                              IF PendingWithStatus(g.val.aggregate, c.tx_id, "Ok")
                              THEN pc'[1] = "idle" => ~result'[1][1].ok
                              ELSE RejectedWith(
                                       <<"WrongTransactionRecipient", c.tx_id>>)]_vars

\* C13 amended: a dispute is accepted only for a tx_id pending in its own
\* client's unlocked account with status ok, and then records the dispute of
\* that transaction; on an unlocked account every other tx_id (unknown, of
\* another client, already disputed) fails with
\* WrongTransactionRecipient(tx_id); on a locked account, which every
\* account with a charged-back transaction is, it fails with LockedAccount;
\* a failed dispute changes nothing.
C13_DisputeGuard ==
    /\ [](\A id \in Clients :
             (HasAccount(id) /\ \E t \in TxIds :
                                    PendingWithStatus(AccountOf(id), t, "ChargedBack"))
                 => AccountOf(id).locked)
    /\ [][pc[1] = "idle" =>
             \A id \in Clients :
                 LET g == get(event_streams, id)
                 IN  \A c \in CommandsOf(id, {"Dispute"}) :
                         HandleStep(1, c, g) =>
                             IF ~g.ok THEN RejectedWith(g.err)
                             ELSE IF g.val.aggregate.locked
                             THEN RejectedWith(<<"LockedAccount", id, c.tx_id>>)
                             ELSE IF PendingWithStatus(g.val.aggregate, c.tx_id, "Ok")
                             THEN AcceptedAs("DisputeWasRecorded", c.tx_id)
                             ELSE RejectedWith(
                                      <<"WrongTransactionRecipient", c.tx_id>>)]_vars

\* The dispute of transaction 1, already disputed in the unlocked account of
\* client 1, was refused, while transaction 2 belongs to client 2 only.
C13_Witness ==
    /\ result[1] = Some(Err(<<"WrongTransactionRecipient", 1>>))
    /\ pc[1] = "idle"
    /\ HasAccount(1) /\ ~AccountOf(1).locked
    /\ PendingWithStatus(AccountOf(1), 1, "Disputed")
    /\ HasAccount(2) /\ 2 \in DOMAIN AccountOf(2).pending_transactions
    /\ 2 \notin DOMAIN AccountOf(1).pending_transactions

\* C14 as claimed: a resolve or chargeback is accepted only for a tx_id
\* pending in the client's account with status disputed; otherwise (unknown,
\* never disputed, already resolved, already charged back) it fails with
\* WrongTransactionRecipient(tx_id) and changes nothing.
C14_Original ==
    [][pc[1] = "idle" =>
          \A id \in Clients :
              LET g == get(event_streams, id)
              IN  g.ok =>
                      \A c \in CommandsOf(id, {"Resolve", "Chargeback"}) :
                          HandleStep(1, c, g) =>
                              IF PendingWithStatus(g.val.aggregate, c.tx_id, "Disputed")
                              THEN pc'[1] = "idle" => ~result'[1][1].ok
                              ELSE RejectedWith(
                                       <<"WrongTransactionRecipient", c.tx_id>>)]_vars

\* C14 amended: a resolve or chargeback is accepted only for a tx_id pending
\* in the client's unlocked account with status disputed, and then records
\* the resolve or chargeback of that transaction; on an unlocked account
\* every other tx_id (unknown, never disputed, already resolved) fails with
\* WrongTransactionRecipient(tx_id); on a locked account, which every
\* account with a charged-back transaction is, it fails with LockedAccount;
\* a failed command changes nothing.
C14_CompleteDisputeGuard ==
    [][pc[1] = "idle" =>
          \A id \in Clients :
              LET g == get(event_streams, id)
              IN  \A c \in CommandsOf(id, {"Resolve", "Chargeback"}) :
                      HandleStep(1, c, g) =>
                          IF ~g.ok THEN RejectedWith(g.err)
                          ELSE IF g.val.aggregate.locked
                          THEN RejectedWith(<<"LockedAccount", id, c.tx_id>>)
                          ELSE IF PendingWithStatus(g.val.aggregate, c.tx_id, "Disputed")
                          THEN AcceptedAs(IF c.transaction_type = "Resolve"
                                          THEN "ResolveWasRecorded"
                                          ELSE "ChargebackWasRecorded", c.tx_id)
                          ELSE RejectedWith(
                                   <<"WrongTransactionRecipient", c.tx_id>>)]_vars

\* A second resolve (or a chargeback) of transaction 1, which the unlocked
\* account of client 1 holds with status ok after its dispute was resolved,
\* was refused.
C14_Witness ==
    /\ result[1] = Some(Err(<<"WrongTransactionRecipient", 1>>))
    /\ pc[1] = "idle"
    /\ HasAccount(1) /\ ~AccountOf(1).locked
    /\ PendingWithStatus(AccountOf(1), 1, "Ok")
    /\ LastEvent(event_streams, 1).kind = "ResolveWasRecorded"

\* Command c is a deposit with a present, non-negative amount.
ValidDepositAmount(c) == c.amount # None /\ c.amount[1] >= 0

\* C15: handling a valid deposit with a fresh tx_id appends exactly one
\* event to the stream of the command's client.  For a client without
\* events it is WasOpened at version 1, creating the account with available
\* = amount, held = 0, locked = false and the deposit as only pending
\* transaction.  For an unlocked account with n events it is
\* DepositWasRecorded at version n + 1 carrying the transaction and its
\* amount, and available grows by the amount.
C15_ValidDepositAppendsOneEvent ==
    [][/\ pc[1] = "idle" =>
              \A id \in Clients :
                  LET g == get(event_streams, id)
                  IN  \A c \in CommandsOf(id, {"Deposit"}) :
                          (ValidDepositAmount(c) /\ HandleStep(1, c, g)) =>
                              IF event_streams[id] = <<>>
                              THEN /\ pc'[1] = "save"
                                   /\ root'[1][1] =
                                        [aggregate |->
                                            [id |-> id,
                                             balance |-> [available |-> c.amount[1],
                                                          held |-> 0],
                                             pending_transactions |-> (c.tx_id :> c),
                                             locked |-> FALSE],
                                         version |-> 1,
                                         recorded_events |-> <<WasOpened(c.tx_id, id, c)>>]
                              ELSE (/\ g.ok
                                    /\ ~g.val.aggregate.locked
                                    /\ ~DuplicateTxId(c, g.val.aggregate)) =>
                                   /\ pc'[1] = "save"
                                   /\ root'[1][1].recorded_events =
                                          <<DepositWasRecorded(c.amount[1], c)>>
                                   /\ root'[1][1].version = Len(event_streams[id]) + 1
                                   /\ root'[1][1].aggregate.balance.available =
                                          g.val.aggregate.balance.available + c.amount[1]
                                   /\ root'[1][1].aggregate.balance.held =
                                          g.val.aggregate.balance.held
       /\ (/\ pc[1] = "save"
           /\ root[1][1].recorded_events[1].kind \in {"WasOpened", "DepositWasRecorded"})
          => LET id == root[1][1].aggregate.id
             IN  /\ pc'[1] = "idle"
                 /\ result'[1] = Some(Ok(<<>>))
                 /\ event_streams' =
                        [event_streams EXCEPT
                           ![id] = Append(@, [stream_id |-> id,
                                              version |-> root[1][1].version,
                                              event |-> root[1][1].recorded_events[1]])]
                 /\ get(event_streams', id).val.aggregate = root[1][1].aggregate]_vars

\* The deposit of 0.00005 as transaction 2 was saved as version 2 of the
\* stream that the deposit of 0.0001 opened.
C15_Witness ==
    /\ Saved(1) /\ result[1] = Some(Ok(<<>>))
    /\ \E id \in Clients :
           /\ Len(event_streams[id]) = 2
           /\ event_streams[id][1].event.kind = "WasOpened"
           /\ event_streams[id][2] =
                  [stream_id |-> id, version |-> 2,
                   event |-> DepositWasRecorded(5, Transaction(id, 2, "Deposit", Some(5)))]
           /\ AccountOf(id).balance = [available |-> 15, held |-> 0]

\* C16: an accepted dispute of a deposit marks that pending transaction
\* disputed and moves exactly the amount of the original deposit, not an
\* amount the dispute command carries, from available to held: available
\* decreases by it, held increases by it, available + held is unchanged.
C16_DepositDisputeMovesToHeld ==
    [][/\ pc[1] = "idle" =>
              \A id \in Clients :
                  LET g == get(event_streams, id)
                  IN  g.ok =>
                          \A c \in CommandsOf(id, {"Dispute"}) :
                              (/\ HandleStep(1, c, g)
                               /\ pc'[1] = "save"
                               /\ g.val.aggregate.pending_transactions[c.tx_id]
                                      .transaction_type = "Deposit")
                              => LET before == g.val.aggregate
                                     after == root'[1][1].aggregate
                                     original == before.pending_transactions[c.tx_id]
                                                     .amount[1]
                                 IN  /\ root'[1][1].recorded_events =
                                            <<DisputeWasRecorded(c.tx_id, original)>>
                                     /\ after.pending_transactions =
                                            SetStatus(before.pending_transactions,
                                                      c.tx_id, "Disputed")
                                     /\ after.balance.available =
                                            before.balance.available - original
                                     /\ after.balance.held = before.balance.held + original
                                     /\ after.balance.available + after.balance.held =
                                            before.balance.available + before.balance.held
                                     /\ after.locked = before.locked
       /\ (/\ pc[1] = "save"
           /\ root[1][1].recorded_events[1].kind = "DisputeWasRecorded")
          => /\ result'[1] = Some(Ok(<<>>))
             /\ get(event_streams', root[1][1].aggregate.id).val.aggregate =
                    root[1][1].aggregate]_vars

\* Deposits of 0.0001 and 0.00005, then the dispute of the first: available
\* 0.00005 and held 0.0001.
C16_Witness ==
    /\ Saved(1) /\ result[1] = Some(Ok(<<>>))
    /\ \E id \in Clients :
           /\ HasAccount(id)
           /\ LastEvent(event_streams, id) = DisputeWasRecorded(1, 10)
           /\ AccountOf(id).balance = [available |-> 5, held |-> 10]
           /\ PendingWithStatus(AccountOf(id), 1, "Disputed")
           /\ AccountOf(id).pending_transactions[1].transaction_type = "Deposit"

\* The account of client id after the first n events of its stream.
AccountAt(id, n) ==
    rehydrate_async(Events(SubSeq(event_streams[id], 1, n))).val[1].aggregate

\* Events i and i + 1 of the stream of client id are the dispute of a
\* transaction and the resolve of the same transaction.
DisputeThenResolve(id, i) ==
    /\ event_streams[id][i].event.kind = "DisputeWasRecorded"
    /\ event_streams[id][i + 1].event.kind = "ResolveWasRecorded"
    /\ event_streams[id][i].event.tx_id = event_streams[id][i + 1].event.tx_id

\* available, held and the status of transaction t are the same in accounts
\* a and b.
SameFunds(a, b, t) ==
    /\ a.balance.available = b.balance.available
    /\ a.balance.held = b.balance.held
    /\ a.pending_transactions[t].status = b.pending_transactions[t].status

\* C17 as claimed: for every disputable pending transaction, deposit or
\* withdrawal, a dispute immediately followed by a resolve of the same tx_id
\* restores available, held and the transaction's status.
C17_Original ==
    \A id \in Clients :
        \A i \in 2 .. Len(event_streams[id]) - 1 :
            DisputeThenResolve(id, i) =>
                SameFunds(AccountAt(id, i + 1), AccountAt(id, i - 1),
                          event_streams[id][i].event.tx_id)

\* C17 amended: a dispute immediately followed by a resolve of the same
\* tx_id restores held and the transaction's status; it restores available
\* when the transaction is a deposit, or a withdrawal disputed while
\* available >= its amount; for a withdrawal disputed while available is
\* below its amount, available ends higher than before by that amount.
C17_DisputeResolveRoundTrip ==
    \A id \in Clients :
        \A i \in 2 .. Len(event_streams[id]) - 1 :
            DisputeThenResolve(id, i) =>
                LET before == AccountAt(id, i - 1)
                    after == AccountAt(id, i + 1)
                    t == event_streams[id][i].event.tx_id
                    tx == before.pending_transactions[t]
                IN  /\ after.balance.held = before.balance.held
                    /\ after.pending_transactions = before.pending_transactions
                    /\ tx.status = "Ok"
                    /\ after.locked = before.locked
                    /\ IF \/ tx.transaction_type = "Deposit"
                          \/ before.balance.available >= tx.amount[1]
                       THEN after.balance.available = before.balance.available
                       ELSE after.balance.available =
                                before.balance.available + tx.amount[1]

\* A withdrawal that emptied the account was disputed and resolved: held is
\* back to 0 and available is up by the withdrawn amount.
C17_Witness ==
    \E id \in Clients :
        /\ Len(event_streams[id]) = 4
        /\ DisputeThenResolve(id, 3)
        /\ AccountAt(id, 2).pending_transactions[event_streams[id][3].event.tx_id]
               .transaction_type = "Withdrawal"
        /\ AccountAt(id, 2).balance = [available |-> 0, held |-> 0]
        /\ AccountAt(id, 4).balance = [available |-> 10, held |-> 0]

\* Some of the first n events of the stream of client id is a chargeback.
ChargebackWithin(id, n) ==
    \E j \in 1 .. n : event_streams[id][j].event.kind = "ChargebackWasRecorded"

\* C18: an accepted chargeback of a disputed transaction sets its status to
\* charged_back, decreases held by the transaction's amount, leaves
\* available unchanged and sets locked = true; locked is false in every
\* account state that no chargeback preceded.
C18_ChargebackLocks ==
    \A id \in Clients :
        /\ \A i \in 2 .. Len(event_streams[id]) :
               event_streams[id][i].event.kind = "ChargebackWasRecorded" =>
                   LET before == AccountAt(id, i - 1)
                       after == AccountAt(id, i)
                       t == event_streams[id][i].event.tx_id
                       tx == before.pending_transactions[t]
                   IN  /\ tx.status = "Disputed"
                       /\ after.pending_transactions =
                              SetStatus(before.pending_transactions, t, "ChargedBack")
                       /\ after.balance.held = before.balance.held - tx.amount[1]
                       /\ after.balance.available = before.balance.available
                       /\ after.locked
        /\ \A n \in 1 .. Len(event_streams[id]) :
               AccountAt(id, n).locked <=> ChargebackWithin(id, n)

\* Deposits of 0.0001 and 0.00005, the dispute and the chargeback of the
\* second: available 0.0001, held 0, locked.
C18_Witness ==
    \E id \in Clients :
        /\ Len(event_streams[id]) = 4
        /\ LastEvent(event_streams, id) = ChargebackWasRecorded(2, 5)
        /\ ~AccountAt(id, 3).locked
        /\ AccountAt(id, 3).balance = [available |-> 10, held |-> 5]
        /\ AccountAt(id, 4).balance = [available |-> 10, held |-> 0]
        /\ AccountAt(id, 4).locked

\* C19: get(id) returns NotFound exactly when the stream of id holds no
\* events; otherwise it returns a root whose version is the number of events
\* in the stream, whose uncommitted buffer is empty and whose account id is
\* the stream id.
C19_GetNotFoundIffEmpty ==
    \A id \in Clients :
        LET g == get(event_streams, id)
        IN  /\ g = Err(<<"NotFound">>) <=> event_streams[id] = <<>>
            /\ event_streams[id] # <<>> =>
                   /\ g.ok
                   /\ g.val.version = Len(event_streams[id])
                   /\ g.val.recorded_events = <<>>
                   /\ g.val.aggregate.id = id

\* get finds no account for client 1, whose stream is empty, and a root at
\* version 3 for client 2.
C19_Witness ==
    /\ event_streams[1] = <<>>
    /\ get(event_streams, 1) = Err(<<"NotFound">>)
    /\ Len(event_streams[2]) = 3
    /\ get(event_streams, 2).ok
    /\ get(event_streams, 2).val.version = 3

\* C20: saving a root whose uncommitted buffer is empty (a root get has just
\* returned, or a root saved a second time) returns success and leaves
\* every stream and its last version unchanged.
C20_EmptySaveIsNoOp ==
    [][/\ \A h \in Handlers :
             (SaveAgain(h) /\ root[h][1].recorded_events = <<>>) =>
                 /\ call' = Some(Ok(<<>>))
                 /\ event_streams' = event_streams
                 /\ root'[h] = root[h]
       /\ \A id \in ConcClients :
             SaveLoaded(id) =>
                 /\ call' = Some(Ok(<<>>))
                 /\ event_streams' = event_streams]_vars

\* A root with an empty buffer was saved with success while a handler holds
\* a root that is behind its stream.
C20_Witness ==
    /\ call = Some(Ok(<<>>))
    /\ \A h \in Handlers : Saved(h)
    /\ \E h \in Handlers :
           /\ root[h][1].recorded_events = <<>>
           /\ root[h][1].version < Len(event_streams[root[h][1].aggregate.id])

\* C21 as claimed: append with an empty event list and a check that passes
\* leaves the stream unchanged and returns the stream's current last
\* version, also for a stream that already holds events.
C21_EmptyAppendReturnsLast ==
    [][\A id \in Clients, version_check \in Checks :
          (AppendCall(id, version_check, <<>>) /\ call'[1].ok)
              => /\ event_streams' = event_streams
                 /\ call'[1].val = LastVersion(id)]_vars

\* An append returned 0 although both streams hold events: it was an append
\* of no events.
C21_Witness ==
    /\ call = Some(Ok(0))
    /\ \A id \in Clients : Len(event_streams[id]) >= 1

\* The consumer loop receives a request in this step.
Consumes == state = "Running" /\ channel # <<>> /\ channel' = Tail(channel)

\* C22: the transactions one connector yielded are handled in the order it
\* yielded them, whatever the other connectors do: the request the consumer
\* loop hands to the service is, for its connector, the one yielded right
\* after the last one handled; the channel and the sending task hold the
\* connector's later requests in order.
InOrderInFlight ==
    \A name \in DOMAIN connector :
        LET queued == SelectSeq(channel, LAMBDA item : item.src = name)
            hand == IF connector[name].item = None THEN <<>>
                    ELSE <<connector[name].item[1]>>
            flight == queued \o hand
        IN  /\ \A i \in 1 .. Len(flight) : flight[i].n = consumed[name] + i
            /\ consumed[name] + Len(flight) = connector[name].yielded

C22_ConnectorOrderKept ==
    /\ []InOrderInFlight
    /\ [][Consumes =>
             LET item == Head(channel)
             IN  /\ item.n = consumed[item.src] + 1
                 /\ consumed' = [consumed EXCEPT ![item.src] = item.n]
                 /\ HandleStep(1, item.request,
                               get(event_streams, item.request.client_id))]_vars

\* Two connectors interleaved: two requests of "a" and one of "b" were
\* handled.
C22_Witness ==
    /\ DOMAIN connector = {"a", "b"}
    /\ consumed["a"] = 2
    /\ consumed["b"] = 1

\* Every request a connector yielded has been handled, and the channel
\* holds nothing.
AllHandled ==
    /\ channel = <<>>
    /\ \A name \in DOMAIN connector :
           /\ connector[name].at = "done"
           /\ connector[name].item = None
           /\ consumed[name] = connector[name].yielded

\* C23: when every connector stops yielding, run eventually returns a Dead
\* runtime; at that point every transaction a connector yielded has been
\* handled exactly once and account_ids is preserved; with no connector
\* registered run returns with an empty account_ids.
C23_RunEndsDeadAllHandled ==
    /\ (state = "Running") ~> (state = "Dead")
    /\ [](state = "Dead" =>
             /\ AllHandled
             /\ pc[1] = "idle"
             /\ connector = <<>> => account_ids = {})
    /\ [][Consumes => Head(channel).n = consumed[Head(channel).src] + 1]_vars
    /\ [][state' = "Dead" =>
             /\ account_ids' = account_ids
             /\ consumed' = consumed
             /\ event_streams' = event_streams]_vars

\* run has returned after two connectors yielded, and the service handled,
\* three transactions.
C23_Witness ==
    /\ state = "Dead"
    /\ DOMAIN connector = {"a", "b"}
    /\ consumed["a"] >= 1 /\ consumed["b"] >= 1
    /\ consumed["a"] + consumed["b"] = 3
    /\ account_ids = {1, 2}

\* The client ids of the rows written, in the order written.
RowClients(rows) == [i \in 1 .. Len(rows) |-> rows[i].client]

\* C24 as claimed: after run, exactly one snapshot row is written for every
\* client id in account_ids, in ascending id order, and the emission
\* succeeds, whatever the input was.
C24_OneRowPerObservedClient ==
    (state = "Dead" /\ output # None) =>
        LET rows == output[1].rows
        IN  /\ output[1].result.ok
            /\ Len(rows) = Cardinality(account_ids)
            /\ {rows[i].client : i \in 1 .. Len(rows)} = account_ids
            /\ \A i, j \in 1 .. Len(rows) : i < j => rows[i].client < rows[j].client

\* The rows were written for a run that consumed transactions of clients 1
\* and 2, of which only client 1 has an account: the row of client 1 was
\* written and get failed for client 2.
C24_Witness ==
    /\ state = "Dead"
    /\ account_ids = {1, 2}
    /\ event_streams[2] = <<>>
    /\ output # None
    /\ output[1].result = Err(<<"NotFound">>)
    /\ RowClients(output[1].rows) = <<1>>

\* C25: when the service returns an error for a transaction the consumer
\* loop continues: the run is not ended, the rest of the channel is kept
\* and every transaction yielded is eventually handled; the rejected
\* transaction changes no stream, and the service handles the next request
\* from the streams alone.
C25_ErrorsDoNotStopTheLoop ==
    /\ [][(Consumes /\ pc'[1] = "idle") =>
             /\ ~result'[1][1].ok
             /\ state' = "Running"
             /\ event_streams' = event_streams
             /\ connector' = connector]_vars
    /\ [][Consumes =>
             \E request \in FairCommands :
                 /\ request = Head(channel).request
                 /\ HandleStep(1, request, get(event_streams, request.client_id))]_vars
    /\ \A name \in ConnectorNames, k \in 1 .. MaxFairYield :
           (Yielded(name) >= k) ~> (consumed[name] >= k)

\* Client 2's withdrawal was rejected (no account), and the deposit of
\* client 1 that followed it was handled and saved.
C25_Witness ==
    /\ 2 \in account_ids
    /\ event_streams[2] = <<>>
    /\ Len(event_streams[1]) = 1
    /\ consumed["a"] + consumed["b"] = 2
    /\ result[1] = Some(Ok(<<>>))
    /\ pc[1] = "idle"

\* C26: in a run (one consumer loop, any number of connectors, any
\* interleaving) no save returns Conflict: from a command's get to its save
\* no other command is handled and no stream changes, and the save succeeds.
C26_NoConflictInRun ==
    /\ [](\A h \in Handlers : result[h] # None => ~IsConflict(result[h][1]))
    /\ [][pc[1] = "save" =>
             /\ ~Consumes
             /\ \/ /\ pc'[1] = "save"
                   /\ event_streams' = event_streams
                   /\ root' = root
                \/ /\ pc'[1] = "idle"
                   /\ result'[1] = Some(Ok(<<>>))
                   /\ Len(event_streams'[root[1][1].aggregate.id]) = root[1][1].version]_vars

\* Two connectors each fed a transaction of client 1, and both were saved:
\* the stream of client 1 holds the deposit and its dispute.
C26_Witness ==
    /\ consumed["a"] = 1 /\ consumed["b"] = 1
    /\ Len(event_streams[1]) = 2
    /\ event_streams[2] = <<>>
    /\ result[1] = Some(Ok(<<>>))

\* The stream of client id goes from empty to holding exactly the Opened
\* event of a deposit with a non-negative amount.
CreatedByDeposit(id) ==
    /\ Len(event_streams'[id]) = 1
    /\ LET evt == event_streams'[id][1].event
       IN  /\ evt.kind = "WasOpened"
           /\ evt.account_holder_id = id
           /\ evt.transaction.transaction_type = "Deposit"
           /\ evt.transaction.amount # None
           /\ evt.transaction.amount[1] >= 0

\* C27: only a deposit creates an account.  For a client whose stream is
\* empty get returns NotFound; a withdrawal, dispute, resolve or chargeback
\* is rejected with NotFound; a deposit with no amount is rejected with
\* NoMoneyDeposited and one with a negative amount with
\* NegativeTransactionAttempted; each leaves the stream empty, and a stream
\* stops being empty only by the Opened event of a valid deposit.
C27_OnlyDepositCreatesAccount ==
    /\ [][pc[1] = "idle" =>
             \A id \in Clients :
                 event_streams[id] = <<>> =>
                     LET g == get(event_streams, id)
                     IN  /\ g = Err(<<"NotFound">>)
                         /\ \A c \in CommandsOf(id, {"Withdrawal", "Dispute",
                                                     "Resolve", "Chargeback"}) :
                                HandleStep(1, c, g) => RejectedWith(<<"NotFound">>)
                         /\ \A c \in CommandsOf(id, {"Deposit"}) :
                                HandleStep(1, c, g) =>
                                    /\ c.amount = None =>
                                           RejectedWith(<<"NoMoneyDeposited">>)
                                    /\ (c.amount # None /\ c.amount[1] < 0) =>
                                           RejectedWith(<<"NegativeTransactionAttempted",
                                                          c.tx_id>>)]_vars
    /\ [][\A id \in Clients :
              (event_streams[id] = <<>> /\ event_streams'[id] # <<>>)
                  => CreatedByDeposit(id)]_vars

\* A deposit of a negative amount was just rejected for client 1, who has no
\* account, after client 2's account was opened.
C27_Witness ==
    /\ event_streams[1] = <<>>
    /\ Len(event_streams[2]) >= 1
    /\ result[1] = Some(Err(<<"NegativeTransactionAttempted", 1>>))

\* An append to the stream being consumed.
AppendsToReadStream ==
    /\ reader # None
    /\ ~reader[1].done
    /\ event_streams'[reader[1].id] # event_streams[reader[1].id]

\* C28: the sequence stream(id, select) returns is the selection of the
\* events the stream held at the call, in ascending version order: the
\* Stream is created from the stream's content at the call, what it has
\* yielded at any moment is the selection of the part iterated, and at its
\* end the selection of all of it (the first events of the stream as it is
\* then); an append during the consumption changes nothing of the Stream.
C28_StreamIsSnapshot ==
    /\ [][\A id \in Clients, select \in Selects :
              StreamCall(id, select) =>
                  /\ reader'[1].events = event_streams[id]
                  /\ reader'[1].seen = <<>>]_vars
    /\ [](reader # None =>
            LET r == reader[1]
                now == event_streams[r.id]
            IN  /\ r.pos <= Len(r.events)
                /\ Len(r.events) <= Len(now)
                /\ r.events = SubSeq(now, 1, Len(r.events))
                /\ r.seen = stream([x \in {r.id} |-> SubSeq(r.events, 1, r.pos)],
                                   r.id, r.select)
                /\ r.done => r.seen = stream([x \in {r.id} |-> r.events],
                                             r.id, r.select)
                /\ \A i, j \in 1 .. Len(r.seen) :
                       i < j => r.seen[i].version < r.seen[j].version)
    /\ [][AppendsToReadStream => reader' = reader]_vars
    /\ [][(reader # None /\ ~reader[1].done) =>
              /\ reader'[1].events = reader[1].events
              /\ reader'[1].select = reader[1].select
              /\ Len(reader'[1].seen) >= Len(reader[1].seen)
              /\ SubSeq(reader'[1].seen, 1, Len(reader[1].seen)) = reader[1].seen]_vars

\* A Stream selecting From(2) ended having yielded the one event it selected
\* of the two the stream held at the call, while the stream holds three.
C28_Witness ==
    /\ reader # None
    /\ reader[1].done
    /\ reader[1].select = VersionSelect_From(2)
    /\ Len(reader[1].events) = 2
    /\ Len(reader[1].seen) = 1
    /\ Len(event_streams[reader[1].id]) = 3

\* The events applied one after the other from state: the account they
\* build, or the first result of apply that is not Ok.
RECURSIVE Replay(_, _)
Replay(st, events) ==
    IF events = <<>> THEN Ok(st)
    ELSE LET r == apply(st, Head(events))
         IN  IF r.ok THEN Replay(Some(r.val), Tail(events)) ELSE r

\* The stream of client id holds an event that apply rejects at its
\* position.
RejectedInStream(id) ==
    LET r == Replay(None, Events(event_streams[id]))
    IN  ~r.ok /\ ~panicked(r)

\* C29: when the stream of id holds an event that apply rejects at its
\* position, get(id) returns Internal, carrying the rejection, and not a
\* root, for a direct caller and for the service alike.
C29_CorruptStreamIsInternal ==
    /\ [](\A id \in Clients :
            RejectedInStream(id) =>
                LET r == Replay(None, Events(event_streams[id]))
                    g == get(event_streams, id)
                IN  /\ ~g.ok
                    /\ g.err = <<"Internal", <<"Domain", r.err>>>>)
    /\ [][\A id \in ConcClients :
              (RejectedInStream(id) /\ GetCall(id))
                  => /\ ~call'[1].ok
                     /\ call'[1].err[1] = "Internal"]_vars

\* get was called on a stream whose second event is a resolve of funds that
\* are not held, and returned Internal.
C29_Witness ==
    /\ Len(event_streams[1]) = 2
    /\ event_streams[1][1].event.kind = "WasOpened"
    /\ event_streams[1][2].event.kind = "ResolveWasRecorded"
    /\ call = Some(Err(<<"Internal", <<"Domain", <<"InsufficientHeldFunds">>>>>>))

\* C30 as claimed: when the service handles a deposit and get fails with
\* Internal, handle returns that error, without reaching save, and no
\* stream changes.
C30_InternalPropagates ==
    [][pc[1] = "idle" =>
          \A id \in ConcClients :
              LET g == get(event_streams, id)
              IN  (~g.ok /\ g.err[1] = "Internal") =>
                      \A c \in {x \in CorruptCommands :
                                   x.transaction_type = "Deposit"} :
                          HandleStep(1, c, g) => RejectedWith(g.err)]_vars

\* The stream of client 1 holds one event, which is not Opened, and the
\* deposit handled for client 1 opened a new account, whose save returned
\* Conflict.
C30_Witness ==
    /\ Len(event_streams[1]) = 1
    /\ event_streams[1][1].event.kind = "DisputeWasRecorded"
    /\ result[1] = Some(Err(<<"Conflict", 0, 1>>))

\* C31: save empties the root's uncommitted buffer whether the append
\* succeeds or fails with Conflict and leaves the root's version as it was
\* (the loaded version plus the events recorded, also when they were
\* dropped); a failed save appends nothing, and saving the same root again
\* returns success and appends nothing.
C31_SaveConsumesBuffer ==
    /\ [][\A h \in Handlers :
              HandleSave(h) =>
                  /\ root[h][1].recorded_events # <<>>
                  /\ root'[h][1].recorded_events = <<>>
                  /\ root'[h][1].version = root[h][1].version
                  /\ result'[h][1].ok \/ IsConflict(result'[h][1])
                  /\ IsConflict(result'[h][1]) =>
                         /\ event_streams' = event_streams
                         /\ root'[h][1].version <=
                                Len(event_streams[root[h][1].aggregate.id])]_vars
    /\ [][\A h \in Handlers :
              (SaveAgain(h) /\ IsConflict(result[h][1])) =>
                  /\ call' = Some(Ok(<<>>))
                  /\ event_streams' = event_streams
                  /\ root' = root]_vars

\* Handler 2's save failed with Conflict, its root holds no event and counts
\* the one it dropped, and a save after that returned success.
C31_Witness ==
    /\ Saved(2)
    /\ IsConflict(result[2][1])
    /\ root[2][1].recorded_events = <<>>
    /\ root[2][1].version = 2
    /\ Len(event_streams[1]) = 2
    /\ call = Some(Ok(<<>>))

\* C32: an accepted dispute of a withdrawal marks it disputed and raises
\* held by the withdrawal's amount; available falls by that amount when it
\* is at least the amount, and is unchanged when it is below it, in which
\* case available + held grows by the amount.
C32_WithdrawalDisputeHolds ==
    [][/\ pc[1] = "idle" =>
              \A id \in Clients :
                  LET g == get(event_streams, id)
                  IN  g.ok =>
                          \A c \in CommandsOf(id, {"Dispute"}) :
                              (/\ HandleStep(1, c, g)
                               /\ pc'[1] = "save"
                               /\ g.val.aggregate.pending_transactions[c.tx_id]
                                      .transaction_type = "Withdrawal")
                              => LET before == g.val.aggregate
                                     after == root'[1][1].aggregate
                                     amount == before.pending_transactions[c.tx_id]
                                                   .amount[1]
                                 IN  /\ root'[1][1].recorded_events =
                                            <<DisputeWasRecorded(c.tx_id, amount)>>
                                     /\ after.pending_transactions =
                                            SetStatus(before.pending_transactions,
                                                      c.tx_id, "Disputed")
                                     /\ after.balance.held = before.balance.held + amount
                                     /\ before.balance.available >= amount =>
                                            after.balance.available =
                                                before.balance.available - amount
                                     /\ before.balance.available < amount =>
                                            /\ after.balance.available =
                                                   before.balance.available
                                            /\ after.balance.available + after.balance.held =
                                                   before.balance.available
                                                       + before.balance.held + amount
       /\ (/\ pc[1] = "save"
           /\ root[1][1].recorded_events[1].kind = "DisputeWasRecorded")
          => /\ result'[1] = Some(Ok(<<>>))
             /\ get(event_streams', root[1][1].aggregate.id).val.aggregate.balance =
                    root[1][1].aggregate.balance]_vars

\* A deposit of 0.0001, a withdrawal of 0.0001, then the dispute of the
\* withdrawal: available stays at 0 and held is 0.0001.
C32_Witness ==
    /\ Saved(1) /\ result[1] = Some(Ok(<<>>))
    /\ \E id \in Clients :
           /\ HasAccount(id)
           /\ Len(event_streams[id]) = 3
           /\ event_streams[id][2].event.kind = "WithdrawalWasRecorded"
           /\ LastEvent(event_streams, id) = DisputeWasRecorded(2, 10)
           /\ AccountOf(id).balance = [available |-> 0, held |-> 10]
           /\ PendingWithStatus(AccountOf(id), 2, "Disputed")

\* The task of connector name is at the given position of its loop.
TaskAt(name, at) == name \in DOMAIN connector /\ connector[name].at = at

\* The recv of connector name returns an error in this step.
RecvFails(name) == TaskAt(name, "recv") /\ connector'[name].at = "done"

\* C33: when the recv of one connector returns an error only its task
\* stops: the run goes on, the channel keeps what the connector forwarded,
\* and every other task is untouched: it can still receive from its
\* connector; once a recv has failed, eventually every task has ended and
\* whatever each yielded until its own recv failed is handled.
C33_RecvErrorStopsOneTask ==
    /\ [][\A name \in ConnectorNames :
              RecvFails(name) =>
                  /\ state' = "Running"
                  /\ channel' = channel
                  /\ consumed' = consumed
                  /\ connector'[name].yielded = connector[name].yielded
                  /\ \A other \in DOMAIN connector \ {name} :
                         connector'[other] = connector[other]]_vars
    /\ [](\A name \in ConnectorNames :
             (state = "Running" /\ TaskAt(name, "recv"))
                 => ENABLED ConnectorRecv(name, FairCommands, MaxFairYield))
    /\ (\E name \in ConnectorNames : TaskAt(name, "done")) ~> AllHandled

\* The recv of connector a failed after it forwarded one transaction, which
\* was handled; connector b has since yielded two, of which one is handled
\* and one is in its task's hands.
C33_Witness ==
    /\ state = "Running"
    /\ TaskAt("a", "done")
    /\ Yielded("a") = 1 /\ consumed["a"] = 1
    /\ TaskAt("b", "send")
    /\ Yielded("b") = 2 /\ consumed["b"] = 1

\* Sequence a is a prefix of sequence b.
IsPrefix(a, b) == Len(a) <= Len(b) /\ a = SubSeq(b, 1, Len(a))

\* C34: the store is append-only: in every step the persisted events of
\* each stream before the step are a prefix of those after it; a call of
\* append adds exactly its batch after them when its check passes and
\* nothing when it does not.
C34_AppendOnly ==
    /\ [][\A id \in Clients : IsPrefix(event_streams[id], event_streams'[id])]_vars
    /\ [][\A id \in Clients, version_check \in Checks, events \in Batches :
              AppendCall(id, version_check, events) =>
                  /\ \A other \in Clients \ {id} :
                         event_streams'[other] = event_streams[other]
                  /\ Events(event_streams'[id]) =
                         Events(event_streams[id])
                             \o (IF call'[1].ok THEN events ELSE <<>>)]_vars

\* Both streams hold two events, and the second append to client 1's
\* stream returned its version.
C34_Witness ==
    /\ call = Some(Ok(2))
    /\ Events(event_streams[1]) = <<DisputeWasRecorded(1, 5), ResolveWasRecorded(1, 5)>>
    /\ Len(event_streams[2]) = 2

\* Pending transaction b is pending transaction a with, at most, another
\* status.
SameButStatus(a, b) == [a EXCEPT !.status = b.status] = b

\* The pending transactions of client id in the given backend; none
\* without an account.
PendingOf(backend, id) ==
    LET g == get(backend, id)
    IN  IF g.ok THEN g.val.aggregate.pending_transactions ELSE <<>>

\* C35: pending_transactions only grows.  Every save of an accepted
\* deposit or withdrawal adds its tx_id, which was not pending, and changes
\* no other entry; every save of a dispute, resolve or chargeback keeps the
\* set of tx_ids and changes only the status of the entry it references;
\* no step removes a tx_id or changes an entry's amount, type or client.
C35_PendingOnlyGrows ==
    [][/\ \A id \in Clients :
              event_streams'[id] = event_streams[id]
                  \/ (pc[1] = "save" /\ root[1][1].aggregate.id = id)
       /\ pc[1] = "save" =>
              LET id == root[1][1].aggregate.id
                  evt == root[1][1].recorded_events[1]
                  before == PendingOf(event_streams, id)
                  after == PendingOf(event_streams', id)
              IN  /\ DOMAIN before \subseteq DOMAIN after
                  /\ \A t \in DOMAIN before : SameButStatus(before[t], after[t])
                  /\ evt.kind \in {"WasOpened", "DepositWasRecorded",
                                   "WithdrawalWasRecorded"} =>
                         /\ evt.transaction.tx_id \notin DOMAIN before
                         /\ DOMAIN after = DOMAIN before \cup {evt.transaction.tx_id}
                         /\ after[evt.transaction.tx_id] = evt.transaction
                         /\ \A t \in DOMAIN before : after[t] = before[t]
                  /\ evt.kind \in {"DisputeWasRecorded", "ResolveWasRecorded",
                                   "ChargebackWasRecorded"} =>
                         /\ evt.tx_id \in DOMAIN before
                         /\ DOMAIN after = DOMAIN before
                         /\ after[evt.tx_id].status # before[evt.tx_id].status
                         /\ \A t \in DOMAIN before \ {evt.tx_id} :
                                after[t] = before[t]]_vars

\* An account with two pending transactions, of which the first was
\* disputed and resolved: both are pending with status ok.
C35_Witness ==
    \E id \in Clients :
        /\ Len(event_streams[id]) = 4
        /\ LastEvent(event_streams, id).kind = "ResolveWasRecorded"
        /\ DOMAIN PendingOf(event_streams, id) = {1, 2}
        /\ \A t \in {1, 2} : PendingOf(event_streams, id)[t].status = "Ok"
        /\ PendingOf(event_streams, id)[2].transaction_type = "Withdrawal"

\* Event i of events references a tx_id that an earlier event inserted.
ReferencesInserted(events, i) ==
    \E j \in 1 .. i - 1 :
        /\ events[j].kind \in {"WasOpened", "DepositWasRecorded", "WithdrawalWasRecorded"}
        /\ events[j].transaction.tx_id = events[i].tx_id

\* C36: whatever the service handled, with handlers racing on one client,
\* every dispute, resolve and chargeback event of a stream references a
\* tx_id an earlier event of the stream inserted and every event passes
\* apply at its position: replaying a stream never panics and is never
\* rejected, get returns a root or NotFound, and no handler panicked or
\* returned Internal.
C36_StreamsAlwaysReplay ==
    /\ \A id \in Clients :
           LET events == Events(event_streams[id])
               g == get(event_streams, id)
           IN  /\ Replay(None, events).ok
               /\ \A i \in 1 .. Len(events) :
                      events[i].kind \in {"DisputeWasRecorded", "ResolveWasRecorded",
                                          "ChargebackWasRecorded"}
                          => ReferencesInserted(events, i)
               /\ g.ok \/ g.err = <<"NotFound">>
    /\ \A h \in Handlers :
           /\ pc[h] # "panicked"
           /\ result[h] # None =>
                  \/ result[h][1].ok
                  \/ /\ ~panicked(result[h][1])
                     /\ result[h][1].err[1] # "Internal"

\* Two handlers raced on client 1 after its deposit was disputed: one saved
\* the resolve, the other was refused with Conflict.
C36_Witness ==
    /\ Len(event_streams[1]) = 3
    /\ event_streams[1][2].event.kind = "DisputeWasRecorded"
    /\ event_streams[1][3].event.kind = "ResolveWasRecorded"
    /\ \E h \in Handlers : Saved(h) /\ IsConflict(result[h][1])

\* The sum of the amounts of the pending transactions of the given tx_ids.
RECURSIVE SumAmounts(_, _)
SumAmounts(pending, ts) ==
    IF ts = {} THEN 0
    ELSE LET t == CHOOSE x \in ts : TRUE
         IN  pending[t].amount[1] + SumAmounts(pending, ts \ {t})

\* held is the sum of the amounts of the disputed pending transactions.
HeldIsDisputedSum(account) ==
    LET pending == account.pending_transactions
    IN  account.balance.held =
            SumAmounts(pending, {t \in DOMAIN pending : pending[t].status = "Disputed"})

\* C37: in every account the service reaches, rehydrated from a stream or
\* held by a handler between its command and its save, held is the sum of
\* the amounts of the pending transactions whose status is disputed.
C37_HeldIsSumOfDisputed ==
    /\ \A id \in Clients : HasAccount(id) => HeldIsDisputedSum(AccountOf(id))
    /\ \A h \in Handlers : root[h] # None => HeldIsDisputedSum(root[h][1].aggregate)

\* Two transactions of one account are disputed at once: held is the sum of
\* a deposit of 0.0001 and one of 0.00005.
C37_Witness ==
    \E id \in Clients :
        /\ HasAccount(id)
        /\ PendingWithStatus(AccountOf(id), 1, "Disputed")
        /\ PendingWithStatus(AccountOf(id), 2, "Disputed")
        /\ AccountOf(id).balance.held = 15

\* The statuses apply assigns.
AssignedStatuses == {"Ok", "Disputed", "ChargedBack"}

\* C38: the status of every pending transaction is ok, disputed or
\* charged_back; the save of a resolve leaves its transaction ok; a dispute
\* of a pending deposit or withdrawal with status ok in an unlocked
\* account is accepted, whatever was disputed and resolved before; a
\* charged_back transaction stays charged_back.
C38_StatusCycle ==
    /\ [](\A id \in Clients :
             HasAccount(id) =>
                 \A t \in DOMAIN AccountOf(id).pending_transactions :
                     AccountOf(id).pending_transactions[t].status \in AssignedStatuses)
    /\ [][pc[1] = "idle" =>
             \A id \in Clients :
                 LET g == get(event_streams, id)
                 IN  g.ok =>
                         \A c \in CommandsOf(id, {"Dispute"}) :
                             (/\ HandleStep(1, c, g)
                              /\ ~g.val.aggregate.locked
                              /\ PendingWithStatus(g.val.aggregate, c.tx_id, "Ok"))
                             => AcceptedAs("DisputeWasRecorded", c.tx_id)]_vars
    /\ [][pc[1] = "save" =>
             LET id == root[1][1].aggregate.id
                 evt == root[1][1].recorded_events[1]
                 before == PendingOf(event_streams, id)
                 after == PendingOf(event_streams', id)
             IN  /\ evt.kind = "ResolveWasRecorded" =>
                        /\ before[evt.tx_id].status = "Disputed"
                        /\ after[evt.tx_id].status = "Ok"
                 /\ \A t \in DOMAIN before :
                        before[t].status = "ChargedBack" =>
                            after[t].status = "ChargedBack"]_vars

\* The deposit that opened an account was disputed, resolved and disputed
\* again.
C38_Witness ==
    \E id \in Clients :
        /\ Len(event_streams[id]) = 4
        /\ event_streams[id][2].event = DisputeWasRecorded(1, 10)
        /\ event_streams[id][3].event = ResolveWasRecorded(1, 10)
        /\ event_streams[id][4].event = DisputeWasRecorded(1, 10)
        /\ PendingWithStatus(AccountOf(id), 1, "Disputed")

\* C39: in every stream the service writes, with handlers racing on one
\* client, the first event is an Opened event, no later event is one, and
\* a Chargeback event is the last event of its stream.
C39_StreamShape ==
    \A id \in Clients :
        LET events == Events(event_streams[id])
        IN  \A i \in 1 .. Len(events) :
                /\ events[i].kind = "WasOpened" <=> i = 1
                /\ events[i].kind = "ChargebackWasRecorded" => i = Len(events)

\* The stream of client 1 ends with a chargeback and a handler that raced
\* with it was refused.
C39_Witness ==
    /\ Len(event_streams[1]) = 3
    /\ event_streams[1][1].event.kind = "WasOpened"
    /\ event_streams[1][3].event.kind = "ChargebackWasRecorded"
    /\ \E h \in Handlers : Saved(h) /\ ~result[h][1].ok

\* The backend after the service handled the requests one after the other,
\* each to its end, starting from backend.
RECURSIVE HandledInOrder(_, _)
HandledInOrder(backend, requests) ==
    IF requests = <<>> THEN backend
    ELSE LET request == Head(requests)
             r == handle_get(get(backend, request.client_id), request)
         IN  HandledInOrder(IF r.done THEN backend
                            ELSE save(backend, r.root[1]).backend,
                            Tail(requests))

\* The client whose transactions connector name carries.
ClientOf(name) == ScriptOf(name)[1].client_id

\* The requests of connector name the service has handled to their end.
HandledOf(name) ==
    LET id == ClientOf(name)
        in_hand == IF pc[1] = "save" /\ root[1][1].aggregate.id = id THEN 1 ELSE 0
    IN  SubSeq(ScriptOf(name), 1, consumed[name] - in_hand)

\* C40: with connectors carrying disjoint clients the stream of each
\* client, at every moment of every interleaving, is the one the service
\* builds by handling that client's transactions consumed so far in their
\* own order, alone; a step changes the stream of the client of the request
\* being saved and no other; and the rows written at the end are those of
\* the streams so built.
C40_InterleavingIndependent ==
    /\ [](\A name \in ConnectorNames :
             event_streams[ClientOf(name)] =
                 HandledInOrder(EmptyBackend, HandledOf(name))[ClientOf(name)])
    /\ [][\A id \in Clients :
              event_streams'[id] # event_streams[id]
                  => pc[1] = "save" /\ root[1][1].aggregate.id = id]_vars
    /\ []((state = "Dead" /\ output # None) =>
             output[1] =
                 serialize_snapshots(
                     [id \in Clients |->
                         LET name == CHOOSE n \in ConnectorNames : ClientOf(n) = id
                         IN  HandledInOrder(EmptyBackend,
                                            SubSeq(ScriptOf(name), 1, Yielded(name)))[id]],
                     account_ids, <<>>))

\* Both connectors were read to their end, in some interleaving: client 1's
\* deposit is disputed, client 2's account was opened after its first
\* withdrawal was refused, and both rows were written.
C40_Witness ==
    /\ state = "Dead"
    /\ consumed["a"] = 2 /\ consumed["b"] = 3
    /\ Len(event_streams[1]) = 2
    /\ Len(event_streams[2]) = 1
    /\ output # None
    /\ output[1].result.ok
    /\ Len(output[1].rows) = 2

====
